---------------------------- MODULE Spec2Model ----------------------------
(***************************************************************************)
(* Model of the geolocation pipeline of space-invaders-db:                 *)
(*   scripts/geolocate_missing.py  - validate_city_coherence,              *)
(*       check_coherence, InvaderLocationSearcher.search,                  *)
(*       process_missing_invaders and the provider filters they rely on;   *)
(*   scripts/update_from_spotter.py - MissingInvaderSearcher(.Async).search*)
(*                                                                         *)
(* Units.  A latitude or longitude is an integer number of 1e-4 degrees    *)
(* (48.8606 is 488606), so that "exactly 0.0" and "|x| < 0.01" keep their  *)
(* meaning.  A distance is an integer number of centimetres, the floor of  *)
(* the float the code computes; 50 m is 5000.  A distance rounded to one   *)
(* decimal (round(d, 1)) is an integer number of decimetres.               *)
(***************************************************************************)
EXTENDS Integers, Sequences, FiniteSets, TLC

VARIABLES
    pc,         \* position of process_missing_invaders / search for the current object
    inv,        \* the input object: [city, image_lieu]
    cfg,        \* the run's switches and its outages: [no_browser, down]
    s,          \* locals of InvaderLocationSearcher.search (its `results` included)
    new_inv,    \* the record under construction (process_missing_invaders)
    loc,        \* loop counters: geocoder queries of the analysis, prompts shown
    stats,      \* process_missing_invaders' counters
    results,    \* the records emitted so far
    invoked,    \* history: the providers invoked for the current object, in order
    discarded,  \* history: every candidate dropped by region validation
    coh,        \* check_coherence applied to drawn inputs
    sp,         \* MissingInvaderSearcher(.Async).search of update_from_spotter.py
    call,       \* a function of the program applied to drawn arguments
    mg,         \* merge_with_updated: its arguments, locals and the files it writes
    todo,       \* process_missing_invaders: the objects after the current one
    output_file \* process_missing_invaders: the JSON file it writes

\* the variables the pipeline and the searchers leave alone
batch == <<todo, output_file>>

aux == <<call, mg, batch>>

vars == <<pc, inv, cfg, s, new_inv, loc, stats, results, invoked, discarded, coh, sp, call, mg, todo, output_file>>

-----------------------------------------------------------------------------
(* Python values *)

\* Python's None in a numeric field (lat, lng, distance_m, distance_to_center)
None == -999999999

\* bool(x) of a numeric-or-None value: None and 0.0 are falsy
Truthy(x) == x # None /\ x # 0

Abs(x) == IF x < 0 THEN -x ELSE x

\* round(distance, 1): centimetres to decimetres
Round1(cm) == (cm + 5) \div 10

\* abs(lat) < 0.01 and abs(lng) < 0.01
IsZeroSentinel(lat, lng) == Abs(lat) < 100 /\ Abs(lng) < 100

\* -90 <= lat <= 90 and -180 <= lng <= 180
InRange(lat, lng) == -900000 <= lat /\ lat <= 900000 /\ -1800000 <= lng /\ lng <= 1800000

-----------------------------------------------------------------------------
(* Reference tables *)

\* CITY_CENTERS, one row per region: <<code, lat, lng>>
CityCenterRows ==
    {
      <<"PA", 488566, 23522>>, <<"LY", 457640, 48357>>, <<"MARS", 432965, 53698>>,
      <<"TLS", 436047, 14442>>, <<"BDX", 448378, -5792>>, <<"NA", 472184, -15536>>,
      <<"NTE", 472184, -15536>>, <<"LIL", 506292, 30573>>, <<"LILE", 506292, 30573>>,
      <<"LILL", 506292, 30573>>, <<"STR", 485734, 77521>>, <<"STRG", 485734, 77521>>,
      <<"MTP", 436108, 38767>>, <<"MPL", 436108, 38767>>, <<"NICE", 437102, 72620>>,
      <<"NP", 437102, 72620>>, <<"AMI", 498941, 22958>>, <<"ORLN", 479029, 19039>>,
      <<"DIJ", 473220, 50415>>, <<"GRN", 451885, 57245>>, <<"AIX", 435297, 54474>>,
      <<"AVI", 439493, 48055>>, <<"NIM", 438367, 43601>>, <<"CLR", 457772, 30870>>,
      <<"RN", 481173, -16778>>, <<"RNS", 481173, -16778>>, <<"VRS", 488014, 21301>>,
      <<"VER", 488014, 21301>>, <<"REIM", 492583, 40317>>, <<"BAB", 434832, -15586>>,
      <<"FTBL", 484010, 27024>>, <<"PAU", 432965, -3708>>, <<"PRP", 426988, 28948>>,
      <<"MTB", 440171, 13527>>, <<"CAPF", 446357, -12479>>, <<"CAZ", 432141, 55378>>,
      <<"LCT", 431748, 56095>>, <<"LBR", 438324, 53658>>, <<"FRQ", 439600, 57810>>,
      <<"MEN", 437764, 75048>>, <<"CON", 440900, -13150>>, <<"VLMO", 454553, 64506>>,
      <<"REUN", -211151, 555364>>, <<"LDN", 515074, -1278>>, <<"MAN", 534808, -22426>>,
      <<"NCL", 549783, -16178>>, <<"BCN", 413851, 21734>>, <<"BRC", 413851, 21734>>,
      <<"ROM", 419028, 124964>>, <<"RAV", 444184, 122035>>, <<"RA", 444184, 122035>>,
      <<"FLRN", 437696, 112558>>, <<"MLN", 454642, 91900>>, <<"VRN", 252854, 829990>>,
      <<"MLGA", 367213, -44214>>, <<"BBO", 432630, -29350>>, <<"AMS", 523676, 49041>>,
      <<"RTD", 519225, 44792>>, <<"NOO", 522361, 44303>>, <<"BRL", 525200, 134050>>,
      <<"MUN", 481351, 115820>>, <<"KLN", 509375, 69603>>, <<"FKF", 501109, 86821>>,
      <<"WN", 482082, 163738>>, <<"BXL", 508503, 43517>>, <<"CHAR", 504108, 44446>>,
      <<"ANVR", 512194, 44025>>, <<"BRN", 469480, 74474>>, <<"BSL", 475596, 75886>>,
      <<"GNV", 462044, 61432>>, <<"LSN", 465197, 66323>>, <<"ANZR", 463100, 73870>>,
      <<"LJU", 460569, 145058>>, <<"PRT", -319505, 1158605>>,
      <<"FAO", 370194, -79322>>, <<"IST", 410082, 289784>>, <<"RVK", 641466, -219426>>,
      <<"HALM", 566745, 128578>>, <<"VSB", 576349, 182948>>, <<"GRU", 432615, 170186>>,
      <<"MRAK", 316295, -79811>>, <<"RBA", 340209, -68416>>,
      <<"DJBA", 338076, 108451>>, <<"MBSA", -40435, 396682>>,
      <<"TK", 356762, 1396503>>, <<"HK", 223193, 1141694>>, <<"BKK", 137563, 1005018>>,
      <<"BGK", 137563, 1005018>>, <<"KAT", 277172, 853240>>, <<"DHK", 238103, 904125>>,
      <<"DJN", 363504, 1273845>>, <<"SL", 375665, 1269780>>, <<"BT", 274712, 896339>>,
      <<"CCU", 211619, -868515>>, <<"NY", 407128, -740060>>,
      <<"LA", 340522, -1182437>>, <<"MIA", 257617, -801918>>,
      <<"SD", 327157, -1171611>>, <<"SP", -235505, -466333>>,
      <<"POTI", -195836, -657531>>, <<"MLB", -378136, 1449631>>,
      <<"BTA", 426973, 94510>>, <<"ELT", 295577, 349519>>, <<"GRTI", 290333, -136333>>,
      <<"RDU", 503543, 54563>>, <<"SPACE", 0, 0>>, <<"NCE", 437102, 72620>>,
      <<"FLR", 437696, 112558>>, <<"MIL", 454642, 91900>>, <<"SF", 377749, -1224194>>,
      <<"SIN", 13521, 1038198>>, <<"MAD", 404168, -37038>>, <<"PRG", 500755, 144378>>,
      <<"WAR", 522297, 210122>>, <<"SYD", -338688, 1512093>>,
      <<"BHM", 524862, -18904>>, <<"CF", 446357, -12479>>, <<"CFT", 446357, -12479>>,
      <<"CFRT", 446357, -12479>>, <<"CAP", 486815, -23182>>, <<"ARN", 446608, -11680>>,
      <<"ARC", 446608, -11680>>, <<"RON", 456222, -10284>>, <<"ROY", 456222, -10284>>,
      <<"LROC", 461603, -11511>>, <<"LRC", 461603, -11511>>, <<"BRG", 512093, 32247>>,
      <<"BRUG", 512093, 32247>>, <<"LIS", 387223, -91393>>, <<"LX", 387223, -91393>>,
      <<"LSB", 387223, -91393>>, <<"GEN", 444056, 89463>>, <<"GNS", 444056, 89463>>,
      <<"NPL", 408518, 142681>>, <<"NAP", 408518, 142681>>, <<"VEN", 454408, 123155>>,
      <<"VCE", 454408, 123155>>, <<"TUN", 368065, 101815>>, <<"TN", 368065, 101815>>,
      <<"LEGE", 446357, -12479>>, <<"LGF", 446357, -12479>>
    }

CITY_CENTERS ==
    [c \in {r[1] : r \in CityCenterRows} |->
        LET row == CHOOSE r \in CityCenterRows : r[1] = c
        IN  [lat |-> row[2], lng |-> row[3]]]

\* CITY_MAX_RADIUS, one row per listed code: <<code, radius in centimetres>>
CityMaxRadiusRows ==
    {
      <<"PA", 4000000>>, <<"LDN", 4000000>>, <<"NY", 5000000>>, <<"LA", 6000000>>,
      <<"TK", 5000000>>, <<"SP", 4000000>>, <<"BRL", 4000000>>, <<"ROM", 3000000>>,
      <<"BCN", 2500000>>, <<"BRC", 2500000>>, <<"MRS", 2000000>>, <<"LYO", 2000000>>,
      <<"BDX", 2000000>>, <<"TLS", 2000000>>, <<"LIL", 2000000>>, <<"AMS", 2000000>>,
      <<"BXL", 2000000>>, <<"MAN", 2000000>>, <<"MLB", 3000000>>, <<"MIA", 3000000>>,
      <<"SD", 3000000>>, <<"HK", 2500000>>, <<"FTBL", 1000000>>, <<"VRS", 1000000>>,
      <<"CAPF", 1000000>>, <<"MEN", 1000000>>, <<"CON", 1000000>>, <<"VLMO", 1000000>>,
      <<"CAZ", 1000000>>, <<"LCT", 1000000>>, <<"FRQ", 1000000>>, <<"ANZR", 1000000>>,
      <<"GRU", 1000000>>, <<"NOO", 1000000>>, <<"REUN", 5000000>>, <<"BT", 8000000>>,
      <<"GRTI", 2000000>>
    }

CITY_MAX_RADIUS ==
    [c \in {r[1] : r \in CityMaxRadiusRows} |->
        (CHOOSE r \in CityMaxRadiusRows : r[1] = c)[2]]

DEFAULT_CITY_RADIUS == 25000 * 100

\* The region codes an object of the model may carry: two regions of
\* CITY_CENTERS, the SPACE sentinel, a code absent from CITY_CENTERS and the
\* empty code.
Cities == {"PA", "LDN", "SPACE", "XX", ""}

\* The coordinates providers may report.  Around Paris: PA1, PA2 at 31 m of
\* PA1, PA3 at 188 m, PA4 at 319 m, PA5 at 1384 m.  In London: GRN on the
\* prime meridian (longitude exactly 0.0) and GRN2 at 13 m of it.  NZ lies
\* within 0.01 degrees of (0,0).
PA1  == <<488606, 23376>>
PA2  == <<488608, 23379>>
PA3  == <<488600, 23400>>
PA4  == <<488630, 23400>>
PA5  == <<488700, 23500>>
GRN  == <<514779, 0>>
GRN2 == <<514780, 1>>
NZ   == <<50, -30>>
Points == {PA1, PA2, PA3, PA4, PA5, GRN, GRN2, NZ}

\* On the meridian of the centre of Paris: PAin at 39 996.8 m of it, PAout at
\* 40 007.9 m.  On the meridian of the centre of Lyon: LYin at 24 996.6 m of
\* it, LYout at 25 007.7 m.  cPA is the centre of Paris itself.
cPA   == <<488566, 23522>>
PAin  == <<492163, 23522>>
PAout == <<492164, 23522>>
LYin  == <<459888, 48357>>
LYout == <<459889, 48357>>

\* Two coordinates of Paris 499.955 m apart
R1 == <<488500, 23376>>
R2 == <<488532, 23328>>

\* calculate_distance on the coordinates of the model: each row is
\* <<lat1, lng1, lat2, lng2, floor(100 * calculate_distance(...))>>, the
\* value of the haversine formula (R = 6371000) on that pair.
HaversineCm ==
    {
      <<488606, 23376, 488606, 23376, 0>>, <<488606, 23376, 488608, 23379, 3124>>,
      <<488606, 23376, 488600, 23400, 18782>>, <<488606, 23376, 488630, 23400, 31944>>,
      <<488606, 23376, 488700, 23500, 138391>>, <<488606, 23376, 514779, 0, 33524605>>,
      <<488606, 23376, 514780, 1, 33525208>>, <<488606, 23376, 50, -30, 543713699>>,
      <<488606, 23376, 488566, 23522, 115700>>, <<488606, 23376, 515074, -1278, 34263773>>,
      <<488608, 23379, 488608, 23379, 0>>, <<488608, 23379, 488600, 23400, 17752>>,
      <<488608, 23379, 488630, 23400, 28886>>, <<488608, 23379, 488700, 23500, 135273>>,
      <<488608, 23379, 514779, 0, 33523718>>, <<488608, 23379, 514780, 1, 33524320>>,
      <<488608, 23379, 50, -30, 543716038>>, <<488608, 23379, 488566, 23522, 114565>>,
      <<488608, 23379, 515074, -1278, 34262938>>, <<488600, 23400, 488600, 23400, 0>>,
      <<488600, 23400, 488630, 23400, 33358>>, <<488600, 23400, 488700, 23500, 133097>>,
      <<488600, 23400, 514779, 0, 33538929>>, <<488600, 23400, 514780, 1, 33539531>>,
      <<488600, 23400, 50, -30, 543707989>>, <<488600, 23400, 488566, 23522, 96929>>,
      <<488600, 23400, 515074, -1278, 34278305>>, <<488630, 23400, 488630, 23400, 0>>,
      <<488630, 23400, 488700, 23500, 106812>>, <<488630, 23400, 514779, 0, 33509728>>,
      <<488630, 23400, 514780, 1, 33510330>>, <<488630, 23400, 50, -30, 543741298>>,
      <<488630, 23400, 488566, 23522, 114148>>, <<488630, 23400, 515074, -1278, 34249388>>,
      <<488700, 23500, 488700, 23500, 0>>, <<488700, 23500, 514779, 0, 33477130>>,
      <<488700, 23500, 514780, 1, 33477729>>, <<488700, 23500, 50, -30, 543822996>>,
      <<488700, 23500, 488566, 23522, 149867>>, <<488700, 23500, 515074, -1278, 34218552>>,
      <<514779, 0, 514779, 0, 0>>, <<514779, 0, 514780, 1, 1309>>,
      <<514779, 0, 50, -30, 572352534>>, <<514779, 0, 488566, 23522, 33615208>>,
      <<514779, 0, 515074, -1278, 943629>>, <<514780, 1, 514780, 1, 0>>,
      <<514780, 1, 50, -30, 572353646>>, <<514780, 1, 488566, 23522, 33615809>>,
      <<514780, 1, 515074, -1278, 943891>>, <<50, -30, 50, -30, 0>>,
      <<50, -30, 488566, 23522, 543675094>>, <<50, -30, 515074, -1278, 572681760>>,
      <<488566, 23522, 488566, 23522, 0>>, <<488566, 23522, 515074, -1278, 34355606>>,
      <<515074, -1278, 515074, -1278, 0>>, <<488606, 23376, 488500, 23376, 117866>>,
      <<488606, 23376, 488532, 23328, 89464>>, <<488608, 23379, 488500, 23376, 120110>>,
      <<488608, 23379, 488532, 23328, 92378>>, <<488600, 23400, 488500, 23376, 112572>>,
      <<488600, 23400, 488532, 23328, 92151>>, <<488630, 23400, 488500, 23376, 145615>>,
      <<488630, 23400, 488532, 23328, 121033>>, <<488700, 23500, 488500, 23376, 240179>>,
      <<488700, 23500, 488532, 23328, 225229>>, <<514779, 0, 488500, 23376, 33627860>>,
      <<514779, 0, 488532, 23328, 33579766>>, <<514780, 1, 488500, 23376, 33628465>>,
      <<514780, 1, 488532, 23328, 33580372>>, <<50, -30, 488500, 23376, 543596005>>,
      <<50, -30, 488532, 23328, 543629634>>, <<488500, 23376, 488500, 23376, 0>>,
      <<488500, 23376, 488532, 23328, 49995>>, <<488532, 23328, 488532, 23328, 0>>,
      <<488606, 23376, 457640, 48357, 39241256>>, <<488608, 23379, 457640, 48357, 39242105>>,
      <<488600, 23400, 457640, 48357, 39226784>>, <<488630, 23400, 457640, 48357, 39255797>>,
      <<488700, 23500, 457640, 48357, 39287558>>, <<514779, 0, 457640, 48357, 72764425>>,
      <<514780, 1, 457640, 48357, 72765020>>, <<50, -30, 457640, 48357, 511024127>>,
      <<488566, 23522, 457640, 48357, 39149893>>, <<492163, 23522, 488566, 23522, 3999681>>,
      <<492163, 23522, 515074, -1278, 30955565>>, <<492163, 23522, 457640, 48357, 42676845>>,
      <<492164, 23522, 488566, 23522, 4000793>>, <<492164, 23522, 515074, -1278, 30954639>>,
      <<492164, 23522, 457640, 48357, 42677837>>, <<459888, 48357, 488566, 23522, 36954125>>,
      <<459888, 48357, 515074, -1278, 71305079>>, <<459888, 48357, 457640, 48357, 2499661>>,
      <<459889, 48357, 488566, 23522, 36953157>>, <<459889, 48357, 515074, -1278, 71304105>>,
      <<459889, 48357, 457640, 48357, 2500773>>
    }

calculate_distance(lat1, lng1, lat2, lng2) ==
    LET row == CHOOSE r \in HaversineCm :
                   \/ <<r[1], r[2], r[3], r[4]>> = <<lat1, lng1, lat2, lng2>>
                   \/ <<r[1], r[2], r[3], r[4]>> = <<lat2, lng2, lat1, lng1>>
    IN row[5]

\* validate_city_coherence: max_radius = CITY_MAX_RADIUS.get(city_code, DEFAULT_CITY_RADIUS)
max_radius(city_code) ==
    IF city_code \in DOMAIN CITY_MAX_RADIUS THEN CITY_MAX_RADIUS[city_code]
    ELSE DEFAULT_CITY_RADIUS

-----------------------------------------------------------------------------
\* a mutation of validate_city_coherence: the default radius for every region
validate_city_coherence_default_radius(lat, lng, city_code) ==
    IF city_code = "" \/ city_code \notin DOMAIN CITY_CENTERS
    THEN [valid |-> TRUE, distance_to_center |-> None]
    ELSE IF city_code = "SPACE"
    THEN [valid |-> TRUE, distance_to_center |-> None]
    ELSE LET distance == calculate_distance(lat, lng, CITY_CENTERS[city_code].lat,
                                            CITY_CENTERS[city_code].lng)
         IN [valid |-> ~(distance > DEFAULT_CITY_RADIUS),
             distance_to_center |-> Round1(distance)]

-----------------------------------------------------------------------------
(* validate_city_coherence *)

validate_city_coherence(lat, lng, city_code) ==
    IF city_code = "" \/ city_code \notin DOMAIN CITY_CENTERS
    THEN [valid |-> TRUE, distance_to_center |-> None]
    ELSE IF city_code = "SPACE"
    THEN [valid |-> TRUE, distance_to_center |-> None]
    ELSE LET distance == calculate_distance(lat, lng, CITY_CENTERS[city_code].lat,
                                            CITY_CENTERS[city_code].lng)
         IN [valid |-> ~(distance > max_radius(city_code)),
             distance_to_center |-> Round1(distance)]

-----------------------------------------------------------------------------
(* InvaderLocationSearcher.check_coherence *)

\* a provider's result dict, as far as the pipeline reads it
NotFound == [found |-> FALSE, lat |-> None, lng |-> None]
Found(p) == [found |-> TRUE, lat |-> p[1], lng |-> p[2]]

check_coherence(aroundus_result, illuminate_result) ==
    LET au_found == aroundus_result.found /\ Truthy(aroundus_result.lat)
                                          /\ Truthy(aroundus_result.lng)
        il_found == illuminate_result.found /\ Truthy(illuminate_result.lat)
                                            /\ Truthy(illuminate_result.lng)
        distance == calculate_distance(aroundus_result.lat, aroundus_result.lng,
                                       illuminate_result.lat, illuminate_result.lng)
    IN  IF au_found /\ il_found
        THEN [status |-> IF distance < 5000 THEN "excellent"
                         ELSE IF distance < 20000 THEN "good"
                         ELSE IF distance < 50000 THEN "warning"
                         ELSE "conflict",
              distance_m |-> Round1(distance)]
        ELSE IF au_found /\ ~il_found
        THEN [status |-> "single_source", distance_m |-> None]
        ELSE IF il_found /\ ~au_found
        THEN [status |-> "single_source", distance_m |-> None]
        ELSE [status |-> "not_found", distance_m |-> None]

-----------------------------------------------------------------------------
(* What the outside world may answer *)

\* "the page (file, photo, geocoder) holds no coordinate"
NoPoint == <<None, None>>

\* the call raised an exception: a timeout, a connection error, an answer that
\* does not parse
Raised == <<None - 1, None - 1>>

\* the same, for a geocoder query
RaisedResponse == <<Raised>>

\* the providers that reach the network, and the outages of a run: none, the
\* first catalog unreachable, every provider unreachable
NetworkProviders == {"aroundus", "illuminateartofficial", "flickr", "exif", "ocr", "vision"}
Outages == {{}, {"aroundus"}, NetworkProviders}

\* what a call of a provider may meet: an exception when the provider is down
Outcomes(down, provider, answers) == IF provider \in down THEN {Raised} ELSE answers
GeocoderOutcomes(down, provider, answers) ==
    IF provider \in down THEN {RaisedResponse} ELSE answers

\* a coordinate outside the legal latitude range
OOR == <<950000, 20000>>

\* what the AroundUs page of the object may hold
AroundUsRaw == {PA1, GRN, NZ, OOR, NoPoint}

\* what the IlluminateArt page of the object may hold
IlluminateRaw == {PA2, PA3, PA4, PA5, GRN2, NZ, OOR, NoPoint}

\* the coordinates the fallback sources and the geocoder may report
GeoPoints == {PA1, GRN, NZ}
FallbackRaw == GeoPoints \cup {NoPoint}

\* what the geocoder may answer for a shop sign and for a station of the image
ShopRaw == {PA1, NoPoint}
StationRaw == {GRN, NoPoint}

\* the longest list of results one geocoder query returns in the model
MaxNominatim == 2

\* the most geocoder queries one OCR or vision analysis issues in the model
MaxQueries == 1

\* the most times the interactive prompt is shown for one object in the model
MaxPrompts == 2

SeqsUpTo(S, n) == UNION {[1..k -> S] : k \in 0..n}

NominatimResponses == SeqsUpTo(GeoPoints, MaxNominatim)

-----------------------------------------------------------------------------
(* Provider filters *)

\* AroundUsSearcher._extract_data_from_page / search: in range and not (0,0)
AroundUsSearcher_search(raw) ==
    IF raw = Raised THEN NotFound
    ELSE IF raw # NoPoint /\ InRange(raw[1], raw[2]) /\ ~IsZeroSentinel(raw[1], raw[2])
    THEN Found(raw) ELSE NotFound

\* IlluminateArtSearcher._extract_data_from_page / search: in range only
IlluminateArtSearcher_search(raw) ==
    IF raw = Raised THEN NotFound
    ELSE IF raw # NoPoint /\ InRange(raw[1], raw[2]) THEN Found(raw) ELSE NotFound

\* PnoteSearcher._index_data / search: not (0,0) and in range
PnoteSearcher_search(raw) ==
    IF raw # NoPoint /\ ~IsZeroSentinel(raw[1], raw[2]) /\ InRange(raw[1], raw[2])
    THEN Found(raw) ELSE NotFound

\* FlickrScraper._extract_geo_from_photo_page / search:
\* Math.abs(lat) > 0.01 || Math.abs(lng) > 0.01
FlickrScraper_search(raw) ==
    IF raw = Raised THEN NotFound
    ELSE IF raw # NoPoint /\ (Abs(raw[1]) > 100 \/ Abs(raw[2]) > 100)
    THEN Found(raw) ELSE NotFound

\* extract_gps_from_image_url: not (0,0) and in range
extract_gps_from_image_url(raw) ==
    IF raw = Raised THEN NotFound
    ELSE IF raw # NoPoint /\ ~IsZeroSentinel(raw[1], raw[2]) /\ InRange(raw[1], raw[2])
    THEN Found(raw) ELSE NotFound

\* The candidates of a geocoder response that _pick_best_nominatim_result
\* drops because validate_city_coherence says invalid
NominatimRejected(response, city_code) ==
    IF city_code # "" /\ city_code \in DOMAIN CITY_CENTERS
    THEN {response[i] : i \in {j \in DOMAIN response :
             /\ ~IsZeroSentinel(response[j][1], response[j][2])
             /\ ~validate_city_coherence(response[j][1], response[j][2], city_code).valid}}
    ELSE {}

\* ImageOCRAnalyzer._pick_best_nominatim_result: the loop over the results,
\* carrying (best, best_distance); best_distance starts at float('inf')
RECURSIVE PickBestFrom(_, _, _, _, _)
PickBestFrom(response, i, city_code, best, best_distance) ==
    IF i > Len(response) THEN best
    ELSE LET lat == response[i][1]
             lng == response[i][2]
             check == validate_city_coherence(lat, lng, city_code)
             \* dist = check['distance_to_center'] or float('inf')
             distIsInf == ~Truthy(check.distance_to_center)
             better == /\ ~distIsInf
                       /\ (best_distance = None \/ check.distance_to_center < best_distance)
         IN  IF IsZeroSentinel(lat, lng)
             THEN PickBestFrom(response, i + 1, city_code, best, best_distance)
             ELSE IF city_code # "" /\ city_code \in DOMAIN CITY_CENTERS
             THEN IF check.valid /\ better
                  THEN PickBestFrom(response, i + 1, city_code, response[i],
                                    check.distance_to_center)
                  ELSE PickBestFrom(response, i + 1, city_code, best, best_distance)
             ELSE IF best = NoPoint
                  THEN PickBestFrom(response, i + 1, city_code, response[i], best_distance)
                  ELSE PickBestFrom(response, i + 1, city_code, best, best_distance)

\* NoPoint stands for the None it returns; best_distance None stands for inf
pick_best_nominatim_result(response, city_code) ==
    PickBestFrom(response, 1, city_code, NoPoint, None)

\* ImageOCRAnalyzer.geocode_address: the exception of a query is caught and the
\* query gives nothing
geocode_address(response, city_code) ==
    IF response = RaisedResponse THEN NoPoint
    ELSE pick_best_nominatim_result(response, city_code)

-----------------------------------------------------------------------------
(* InvaderLocationSearcher.search *)

\* search()'s `results` dict and locals before the first source is asked
SearchStart ==
    [aroundus_result   |-> NotFound, aroundus_valid   |-> FALSE,
     illuminate_result |-> NotFound, illuminate_valid |-> FALSE,
     pnote_result      |-> NotFound, flickr_result    |-> NotFound,
     coherence         |-> [status |-> "unknown", distance_m |-> None],
     best_source       |-> "",
     found |-> FALSE, lat |-> None, lng |-> None, source |-> "",
     rejected_sources  |-> <<>>]

\* process_missing_invaders' new_inv as built before the branches
NewInvStart(city_code) ==
    [city |-> city_code, lat |-> None, lng |-> None, geo_source |-> "",
     geo_confidence |-> "low", location_unknown |-> TRUE]

LocStart == [queries |-> 0, prompts |-> 0]

StatsStart == [total |-> 1, found |-> 0, high |-> 0, medium |-> 0, low |-> 0]

\* dict[key] = value, the key new or not
SetKey(d, key, value) ==
    [k \in DOMAIN d \cup {key} |-> IF k = key THEN value ELSE d[k]]

\* search._check_city: TRUE when the candidate is kept
check_city_ok(lat, lng, city_code) ==
    IF city_code = "" THEN TRUE
    ELSE validate_city_coherence(lat, lng, city_code).valid

\* search._check_city: the entry appended to results['rejected_sources']
RejectedEntry(lat, lng, city_code, source_name) ==
    [source |-> source_name, lat |-> lat, lng |-> lng,
     distance_to_center |-> validate_city_coherence(lat, lng, city_code).distance_to_center]

\* rejected_sources after _check_city on a found result
AfterCheckCity(rejected, result, city_code, source_name) ==
    IF result.found /\ ~check_city_ok(result.lat, result.lng, city_code)
    THEN Append(rejected, RejectedEntry(result.lat, result.lng, city_code, source_name))
    ELSE rejected

\* history: the candidates dropped by region validation so far
Dropped(result, city_code, source_name) ==
    IF result.found /\ ~check_city_ok(result.lat, result.lng, city_code)
    THEN {[source |-> source_name, lat |-> result.lat, lng |-> result.lng]}
    ELSE {}

\* check_coherence's `coherence` dict before any branch is taken
CoherenceUnset == [status |-> "unknown", distance_m |-> None]

CoherenceIdle == [a |-> NotFound, b |-> NotFound, out |-> CoherenceUnset]

\* MissingInvaderSearcher(.Async).search's `result` dict before the searches
SpotterResultStart ==
    [found |-> FALSE, lat |-> None, lng |-> None, source |-> "",
     geo_confidence |-> "low", distance_m |-> None]

SpotterIdle ==
    [pc |-> "idle", searcher |-> "", aroundus |-> NotFound, illuminate |-> NotFound,
     result |-> SpotterResultStart]

\* no function call in progress
CallIdle == [fn |-> "", city_code |-> "", lat |-> None, lng |-> None]

\* a file that does not exist
NoFile == <<"no file">>

\* process_missing_invaders is on its only object and has written nothing
BatchIdle == todo = <<>> /\ output_file = NoFile

\* merge_with_updated not running
MergeIdle == [geolocated |-> <<>>, before |-> <<>>, updated_db |-> <<>>, i |-> 0,
              backup |-> FALSE, dry_run |-> FALSE,
              updated_file |-> NoFile, backup_file |-> NoFile]

\* process_missing_invaders starts on one object
InitPipeline ==
    /\ pc = "aroundus"
    /\ call = CallIdle
    /\ mg = MergeIdle
    /\ BatchIdle
    /\ inv \in [city : Cities, image_lieu : BOOLEAN]
    /\ cfg \in [no_browser : BOOLEAN, down : Outages]
    /\ s = SearchStart
    /\ new_inv = NewInvStart(inv.city)
    /\ loc = LocStart
    /\ stats = StatsStart
    /\ results = <<>>
    /\ invoked = <<>>
    /\ discarded = {}
    /\ coh = CoherenceIdle
    /\ sp = SpotterIdle

\* the variables of process_missing_invaders while another program runs
PipelineIdle ==
    /\ inv = [city |-> "", image_lieu |-> FALSE]
    /\ cfg = [no_browser |-> FALSE, down |-> {}]
    /\ s = SearchStart
    /\ new_inv = NewInvStart("")
    /\ loc = LocStart
    /\ stats = StatsStart
    /\ results = <<>>
    /\ invoked = <<>>
    /\ discarded = {}

\* update_from_spotter.py starts MissingInvaderSearcher(.Async).search on one object
InitSpotter ==
    /\ pc = "spotter"
    /\ call = CallIdle
    /\ mg = MergeIdle
    /\ BatchIdle
    /\ PipelineIdle
    /\ coh = CoherenceIdle
    /\ sp \in {[SpotterIdle EXCEPT !.pc = "aroundus", !.searcher = m] :
                   m \in {"MissingInvaderSearcher", "MissingInvaderSearcherAsync"}}

Init == InitPipeline \/ InitSpotter

\* a mutation of SearchAroundUs: the exception of the search is not caught
SearchAroundUsUnhandled ==
    /\ pc = "aroundus"
    /\ IF cfg.no_browser
       THEN /\ pc' = "illuminate"
            /\ UNCHANGED <<s, invoked, discarded>>
       ELSE \E raw \in Outcomes(cfg.down, "aroundus", AroundUsRaw) :
              LET r == AroundUsSearcher_search(raw) IN
              /\ pc' = IF raw = Raised THEN "raised" ELSE "illuminate"
              /\ s' = [s EXCEPT !.aroundus_result = r,
                         !.aroundus_valid = r.found /\ check_city_ok(r.lat, r.lng, inv.city),
                         !.rejected_sources = AfterCheckCity(@, r, inv.city, "AroundUs")]
              /\ invoked' = Append(invoked, "aroundus")
              /\ discarded' = discarded \cup Dropped(r, inv.city, "AroundUs")
    /\ UNCHANGED <<inv, cfg, new_inv, loc, stats, results, coh, sp, aux>>

\* 1. AroundUs (skipped without a browser)
SearchAroundUs ==
    /\ pc = "aroundus"
    /\ pc' = "illuminate"
    /\ IF cfg.no_browser
       THEN UNCHANGED <<s, invoked, discarded>>
       ELSE \E raw \in Outcomes(cfg.down, "aroundus", AroundUsRaw) :
              LET r == AroundUsSearcher_search(raw) IN
              /\ s' = [s EXCEPT !.aroundus_result = r,
                         !.aroundus_valid = r.found /\ check_city_ok(r.lat, r.lng, inv.city),
                         !.rejected_sources = AfterCheckCity(@, r, inv.city, "AroundUs")]
              /\ invoked' = Append(invoked, "aroundus")
              /\ discarded' = discarded \cup Dropped(r, inv.city, "AroundUs")
    /\ UNCHANGED <<inv, cfg, new_inv, loc, stats, results, coh, sp, aux>>

\* 2. IlluminateArt (always, also when AroundUs found; skipped without a browser)
SearchIlluminate ==
    /\ pc = "illuminate"
    /\ pc' = "coherence"
    /\ IF cfg.no_browser
       THEN UNCHANGED <<s, invoked, discarded>>
       ELSE \E raw \in Outcomes(cfg.down, "illuminateartofficial", IlluminateRaw) :
              LET r == IlluminateArtSearcher_search(raw) IN
              /\ s' = [s EXCEPT !.illuminate_result = r,
                         !.illuminate_valid = r.found /\ check_city_ok(r.lat, r.lng, inv.city),
                         !.rejected_sources = AfterCheckCity(@, r, inv.city, "IlluminateArt")]
              /\ invoked' = Append(invoked, "illuminateartofficial")
              /\ discarded' = discarded \cup Dropped(r, inv.city, "IlluminateArt")
    /\ UNCHANGED <<inv, cfg, new_inv, loc, stats, results, coh, sp, aux>>

\* 4. the choice among the two web sources
BestWebSource(aroundus_valid, illuminate_valid, status) ==
    IF aroundus_valid /\ illuminate_valid
    THEN (IF status \in {"excellent", "good"} THEN "aroundus"
          ELSE IF status = "conflict" THEN "aroundus"
          ELSE "aroundus")
    ELSE IF aroundus_valid THEN "aroundus"
    ELSE IF illuminate_valid THEN "illuminate"
    ELSE ""

\* 3. + 4. coherence of the two web sources, then the best of them
SearchCoherence ==
    /\ pc = "coherence"
    /\ pc' = "pnote"
    /\ LET coherence == check_coherence(
                            IF s.aroundus_valid THEN s.aroundus_result ELSE NotFound,
                            IF s.illuminate_valid THEN s.illuminate_result ELSE NotFound)
       IN s' = [s EXCEPT !.coherence = coherence,
                         !.best_source = BestWebSource(s.aroundus_valid, s.illuminate_valid,
                                                       coherence.status)]
    /\ UNCHANGED <<inv, cfg, new_inv, loc, stats, results, invoked, discarded, coh, sp, aux>>

\* a mutation of SearchPnote: Pnote asked even when a catalog is retained
SearchPnoteUnguarded ==
    /\ pc = "pnote"
    /\ pc' = "flickr"
    /\ \E raw \in FallbackRaw :
         LET r == PnoteSearcher_search(raw)
             ok == r.found /\ check_city_ok(r.lat, r.lng, inv.city) IN
         /\ s' = [s EXCEPT !.pnote_result = r,
                    !.rejected_sources = AfterCheckCity(@, r, inv.city, "Pnote"),
                    !.best_source = IF ok /\ @ = "" THEN "pnote" ELSE @,
                    !.coherence.status = IF ok /\ s.best_source = ""
                                         THEN "single_source" ELSE @]
         /\ invoked' = Append(invoked, "pnote")
         /\ discarded' = discarded \cup Dropped(r, inv.city, "Pnote")
    /\ UNCHANGED <<inv, cfg, new_inv, loc, stats, results, coh, sp, aux>>

\* 5. Pnote, when nothing is retained yet and the pnote base is loaded
SearchPnote ==
    /\ pc = "pnote"
    /\ pc' = "flickr"
    /\ \/ /\ s.best_source = ""
          /\ \E raw \in FallbackRaw :
               LET r == PnoteSearcher_search(raw)
                   ok == r.found /\ check_city_ok(r.lat, r.lng, inv.city) IN
               /\ s' = [s EXCEPT !.pnote_result = r,
                          !.rejected_sources = AfterCheckCity(@, r, inv.city, "Pnote"),
                          !.best_source = IF ok THEN "pnote" ELSE @,
                          !.coherence.status = IF ok THEN "single_source" ELSE @]
               /\ invoked' = Append(invoked, "pnote")
               /\ discarded' = discarded \cup Dropped(r, inv.city, "Pnote")
       \/ \* a source is retained already, or no pnote base is loaded
          UNCHANGED <<s, invoked, discarded>>
    /\ UNCHANGED <<inv, cfg, new_inv, loc, stats, results, coh, sp, aux>>

\* 6. Flickr, when nothing is retained yet, with a browser and Flickr enabled
SearchFlickr ==
    /\ pc = "flickr"
    /\ pc' = "fill"
    /\ \/ /\ s.best_source = ""
          /\ ~cfg.no_browser
          /\ \E raw \in Outcomes(cfg.down, "flickr", FallbackRaw) :
               LET r == FlickrScraper_search(raw)
                   ok == r.found /\ check_city_ok(r.lat, r.lng, inv.city) IN
               /\ s' = [s EXCEPT !.flickr_result = r,
                          !.rejected_sources = AfterCheckCity(@, r, inv.city, "Flickr"),
                          !.best_source = IF ok THEN "flickr" ELSE @,
                          !.coherence.status = IF ok THEN "single_source" ELSE @]
               /\ invoked' = Append(invoked, "flickr")
               /\ discarded' = discarded \cup Dropped(r, inv.city, "Flickr")
       \/ \* a source is retained already, or Flickr is off
          UNCHANGED <<s, invoked, discarded>>
    /\ UNCHANGED <<inv, cfg, new_inv, loc, stats, results, coh, sp, aux>>

\* 7. search fills lat/lng/source from the retained source
SearchFilled(t) ==
    CASE t.best_source = "aroundus" ->
           [t EXCEPT !.found = TRUE, !.lat = t.aroundus_result.lat,
                     !.lng = t.aroundus_result.lng, !.source = "aroundus"]
      [] t.best_source = "illuminate" ->
           [t EXCEPT !.found = TRUE, !.lat = t.illuminate_result.lat,
                     !.lng = t.illuminate_result.lng, !.source = "illuminateartofficial"]
      [] t.best_source = "pnote" ->
           [t EXCEPT !.found = TRUE, !.lat = t.pnote_result.lat,
                     !.lng = t.pnote_result.lng, !.source = "pnote"]
      [] t.best_source = "flickr" ->
           [t EXCEPT !.found = TRUE, !.lat = t.flickr_result.lat,
                     !.lng = t.flickr_result.lng, !.source = "flickr"]
      [] OTHER -> t

\* process_missing_invaders: "Déterminer la confiance" from the coherence status
ConfidenceOfStatus(status) ==
    IF status \in {"excellent", "good"} THEN "high"
    ELSE IF status \in {"warning", "conflict", "single_source"} THEN "medium"
    ELSE "medium"

\* process_missing_invaders: a fallback source gave the coordinate
ResolvedBy(rec, lat, lng, source, confidence) ==
    SetKey([rec EXCEPT !.lat = lat, !.lng = lng, !.geo_source = source,
                       !.geo_confidence = confidence, !.location_unknown = FALSE],
           "geo_search_exhausted", FALSE)

\* search returns; process_missing_invaders takes the `found` branch or not
SearchReturn ==
    /\ pc = "fill"
    /\ LET t == SearchFilled(s) IN
       /\ s' = t
       /\ IF t.found
          THEN LET confidence == ConfidenceOfStatus(t.coherence.status)
                   rec == ResolvedBy(new_inv, t.lat, t.lng, t.source, confidence) IN
               /\ new_inv' = rec
               /\ stats' = [stats EXCEPT ![confidence] = @ + 1, !.found = @ + 1]
               /\ results' = Append(results, rec)
               /\ pc' = "done"
          ELSE /\ UNCHANGED <<new_inv, stats, results>>
               /\ pc' = "exif"
    /\ UNCHANGED <<inv, cfg, loc, invoked, discarded, coh, sp, aux>>

\* Fallback 1: EXIF of image_lieu, when the object has one
TryExif ==
    /\ pc = "exif"
    /\ IF inv.image_lieu
       THEN \E raw \in Outcomes(cfg.down, "exif", FallbackRaw) :
              LET r == extract_gps_from_image_url(raw)
                  rec == ResolvedBy(new_inv, r.lat, r.lng, "exif_image_lieu", "medium") IN
              /\ invoked' = Append(invoked, "exif")
              /\ IF r.found
                 THEN /\ new_inv' = rec
                      /\ stats' = [stats EXCEPT !.found = @ + 1, !.medium = @ + 1]
                      /\ results' = Append(results, rec)
                      /\ pc' = "done"
                 ELSE /\ UNCHANGED <<new_inv, stats, results>>
                      /\ pc' = "ocr"
       ELSE /\ UNCHANGED <<new_inv, stats, results, invoked>>
            /\ pc' = "vision"
    /\ UNCHANGED <<inv, cfg, s, loc, discarded, coh, sp, aux>>

\* history: the geocoder results dropped by region validation, tagged by caller
DroppedGeo(response, city_code, source_name) ==
    IF response = RaisedResponse THEN {}
    ELSE {[source |-> source_name, lat |-> p[1], lng |-> p[2]] :
            p \in NominatimRejected(response, city_code)}

\* Fallback 2: OCR, when EXIF gave nothing and Tesseract is there
TryOcr ==
    /\ pc = "ocr"
    /\ \/ /\ invoked' = Append(invoked, "ocr")
          /\ loc' = [loc EXCEPT !.queries = 0]
          /\ pc' = "ocr_geocode"
       \/ \* no OCR analyzer
          /\ UNCHANGED <<invoked, loc>>
          /\ pc' = "vision"
    /\ UNCHANGED <<inv, cfg, s, new_inv, stats, results, discarded, coh, sp, aux>>

\* ImageOCRAnalyzer.analyze: one geocode_address query for the next address
OcrGeocode ==
    /\ pc = "ocr_geocode"
    /\ loc.queries < MaxQueries
    /\ \E response \in GeocoderOutcomes(cfg.down, "ocr", NominatimResponses) :
         LET geo == geocode_address(response, inv.city)
             rec == ResolvedBy(new_inv, geo[1], geo[2], "ocr", "medium") IN
         /\ discarded' = discarded \cup DroppedGeo(response, inv.city, "ocr")
         /\ IF geo # NoPoint
            THEN /\ new_inv' = rec
                 /\ stats' = [stats EXCEPT !.found = @ + 1, !.medium = @ + 1]
                 /\ results' = Append(results, rec)
                 /\ pc' = "done"
                 /\ loc' = [loc EXCEPT !.queries = 0]
            ELSE /\ loc' = [loc EXCEPT !.queries = @ + 1]
                 /\ UNCHANGED <<new_inv, stats, results, pc>>
    /\ UNCHANGED <<inv, cfg, s, invoked, coh, sp, aux>>

\* a mutation of OcrNotFound: the EXIF step is entered again
OcrNotFoundBackToExif ==
    /\ pc = "ocr_geocode"
    /\ pc' = "exif"
    /\ loc' = [loc EXCEPT !.queries = 0]
    /\ UNCHANGED <<inv, cfg, s, new_inv, stats, results, invoked, discarded, coh, sp, aux>>

\* ImageOCRAnalyzer.analyze: no image, no text, no address, or every address
\* geocoded without a result
OcrNotFound ==
    /\ pc = "ocr_geocode"
    /\ pc' = "vision"
    /\ loc' = [loc EXCEPT !.queries = 0]
    /\ UNCHANGED <<inv, cfg, s, new_inv, stats, results, invoked, discarded, coh, sp, aux>>

\* VisionAnalyzer._search_landmark_address: the geocoder's first result, as is
search_landmark_address(raw) == IF raw = Raised THEN NoPoint ELSE raw

\* VisionAnalyzer._search_landmarks_web, for one shop sign, one landmark and one
\* station: the candidates kept, as <<point, score>>
LandmarkCandidates(shop, landmark, station, city_code) ==
    LET keep(raw) == /\ search_landmark_address(raw) # NoPoint
                     /\ (city_code # "" =>
                            validate_city_coherence(raw[1], raw[2], city_code).valid)
    IN  (IF keep(shop) THEN {<<shop, IF city_code # "" THEN 70 ELSE 60>>} ELSE {})
        \cup (IF keep(landmark)
              THEN {<<landmark, IF city_code # "" THEN 80 ELSE 70>>} ELSE {})
        \cup (IF keep(station)
              THEN {<<station, IF city_code # "" THEN 65 ELSE 55>>} ELSE {})

\* candidates.sort(key=-score); candidates[0]
BestLandmark(shop, landmark, station, city_code) ==
    LET cands == LandmarkCandidates(shop, landmark, station, city_code) IN
    IF cands = {} THEN NoPoint
    ELSE (CHOOSE c \in cands : \A d \in cands : d[2] <= c[2])[1]

\* history: the landmark lookups dropped by region validation
DroppedLandmarks(shop, landmark, station, city_code) ==
    {[source |-> "vision", lat |-> raw[1], lng |-> raw[2]] :
        raw \in {r \in {shop, landmark, station} :
                    /\ search_landmark_address(r) # NoPoint
                    /\ city_code # ""
                    /\ ~validate_city_coherence(r[1], r[2], city_code).valid}}

\* process_missing_invaders: the confidence given to a vision result
VisionConfidence(confidence) ==
    IF confidence \in {"HIGH", "MEDIUM"} THEN "medium" ELSE "low"

\* process_missing_invaders: vision.analyze returned `found` with this point
\* and some confidence of its own; `dropped` are the candidates the analysis
\* itself dropped on the way
VisionFound(p, dropped) ==
    LET valid == inv.city = "" \/ validate_city_coherence(p[1], p[2], inv.city).valid
    IN  IF valid
        THEN /\ \E confidence \in {"HIGH", "MEDIUM", "LOW"} :
                  LET rec == ResolvedBy(new_inv, p[1], p[2], "vision",
                                        VisionConfidence(confidence)) IN
                  /\ new_inv' = rec
                  /\ results' = Append(results, rec)
             /\ stats' = [stats EXCEPT !.found = @ + 1, !.medium = @ + 1]
             /\ pc' = "done"
             /\ discarded' = discarded \cup dropped
        ELSE /\ discarded' = discarded \cup dropped \cup
                                {[source |-> "vision", lat |-> p[1], lng |-> p[2]]}
             /\ pc' = "interactive"
             /\ UNCHANGED <<new_inv, stats, results>>

\* Fallback: Claude Vision, when the images gave nothing and vision is enabled
TryVision ==
    /\ pc = "vision"
    /\ \/ /\ inv.image_lieu
          /\ loc' = [loc EXCEPT !.queries = 0]
          /\ invoked' = Append(invoked, "vision")
          /\ pc' = "vision_geocode"
       \/ \* no image, or no vision key
          /\ UNCHANGED <<invoked, loc>>
          /\ pc' = "interactive"
    /\ UNCHANGED <<inv, cfg, s, new_inv, stats, results, discarded, coh, sp, aux>>

\* VisionAnalyzer.analyze, step 4: one geocode_address query for the next address
VisionGeocode ==
    /\ pc = "vision_geocode"
    /\ loc.queries < MaxQueries
    /\ \E response \in GeocoderOutcomes(cfg.down, "vision", NominatimResponses) :
         LET geo == geocode_address(response, inv.city) IN
         IF geo # NoPoint
         THEN /\ VisionFound(geo, DroppedGeo(response, inv.city, "vision"))
              /\ loc' = [loc EXCEPT !.queries = 0]
         ELSE /\ loc' = [loc EXCEPT !.queries = @ + 1]
              /\ discarded' = discarded \cup DroppedGeo(response, inv.city, "vision")
              /\ UNCHANGED <<new_inv, stats, results, pc>>
    /\ UNCHANGED <<inv, cfg, s, invoked, coh, sp, aux>>

\* VisionAnalyzer.analyze, step 5: no address gave a coordinate (or the images
\* or the clues were missing); the shop signs, landmarks and stations are looked up
VisionLandmarks ==
    /\ pc = "vision_geocode"
    /\ \E shop \in Outcomes(cfg.down, "vision", ShopRaw),
          landmark \in Outcomes(cfg.down, "vision", FallbackRaw),
          station \in Outcomes(cfg.down, "vision", StationRaw) :
         LET best == BestLandmark(shop, landmark, station, inv.city)
             dropped == DroppedLandmarks(shop, landmark, station, inv.city) IN
         IF best # NoPoint
         THEN VisionFound(best, dropped)
         ELSE /\ discarded' = discarded \cup dropped
              /\ pc' = "interactive"
              /\ UNCHANGED <<new_inv, stats, results>>
    /\ loc' = [loc EXCEPT !.queries = 0]
    /\ UNCHANGED <<inv, cfg, s, invoked, coh, sp, aux>>

\* interactive_google_lens / interactive_manual_address: the operator answers
\* the prompt.  `answer` is what input() gives; for an address, `http` and
\* `found` are Nominatim's status and result list (limit 1).
TryInteractive ==
    /\ pc = "interactive"
    /\ \/ \* interactive mode is off
          /\ loc.prompts = 0
          /\ pc' = "fallback"
          /\ UNCHANGED <<new_inv, loc, stats, results, invoked>>
       \/ /\ loc.prompts < MaxPrompts
          /\ invoked' = Append(invoked, "interactive")
          /\ loc' = [loc EXCEPT !.prompts = @ + 1]
          /\ \E answer \in {"interrupt", "skip", "quit", "address"} :
               CASE answer \in {"interrupt", "skip"} ->
                      /\ pc' = "fallback"
                      /\ UNCHANGED <<new_inv, stats, results>>
                 [] answer = "quit" ->
                      \* raise KeyboardInterrupt("User quit")
                      /\ pc' = "interrupted"
                      /\ UNCHANGED <<new_inv, stats, results>>
                 [] answer = "address" ->
                      \E http \in {"200", "error"}, found \in SeqsUpTo(GeoPoints, 1) :
                        IF http = "error"
                        THEN /\ pc' = "fallback"
                             /\ UNCHANGED <<new_inv, stats, results>>
                        ELSE IF found = <<>>
                        THEN \* "Réessayer avec une autre adresse?": another address,
                             \* skip, or Ctrl-C at that prompt
                             /\ pc' \in {"fallback", "interrupted"} \cup
                                        (IF loc.prompts + 1 < MaxPrompts
                                         THEN {"interactive"} ELSE {})
                             /\ UNCHANGED <<new_inv, stats, results>>
                        ELSE IF IsZeroSentinel(found[1][1], found[1][2])
                        THEN /\ pc' = "fallback"
                             /\ UNCHANGED <<new_inv, stats, results>>
                        ELSE LET rec == ResolvedBy(new_inv, found[1][1], found[1][2],
                                                   "interactive", "medium") IN
                             /\ new_inv' = rec
                             /\ stats' = [stats EXCEPT !.found = @ + 1, !.medium = @ + 1]
                             /\ results' = Append(results, rec)
                             /\ pc' = "done"
    /\ UNCHANGED <<inv, cfg, s, discarded, coh, sp, aux>>

\* a mutation of CityCenterRecord: the record is not marked exhausted
CityCenterRecordNotMarked(rec, city_code) ==
    IF city_code \in DOMAIN CITY_CENTERS
    THEN [rec EXCEPT !.lat = CITY_CENTERS[city_code].lat,
                     !.lng = CITY_CENTERS[city_code].lng,
                     !.geo_source = "city_center",
                     !.geo_confidence = "low"]
    ELSE [rec EXCEPT !.lat = 0, !.lng = 0, !.geo_source = "unknown"]

\* Fallback 3: the region centre, or (0,0) for a region CITY_CENTERS does not list
CityCenterRecord(rec, city_code) ==
    IF city_code \in DOMAIN CITY_CENTERS
    THEN SetKey(SetKey([rec EXCEPT !.lat = CITY_CENTERS[city_code].lat,
                                   !.lng = CITY_CENTERS[city_code].lng,
                                   !.geo_source = "city_center",
                                   !.geo_confidence = "low"],
                       "geo_search_exhausted", TRUE),
                "geo_search_date", "now")
    ELSE SetKey(SetKey([rec EXCEPT !.lat = 0, !.lng = 0, !.geo_source = "unknown"],
                       "geo_search_exhausted", TRUE),
                "geo_search_date", "now")

CityCenterFallback ==
    /\ pc = "fallback"
    /\ new_inv' = CityCenterRecord(new_inv, inv.city)
    /\ results' = Append(results, CityCenterRecord(new_inv, inv.city))
    /\ stats' = [stats EXCEPT !.low = @ + 1]
    /\ pc' = "done"
    /\ UNCHANGED <<inv, cfg, s, loc, invoked, discarded, coh, sp, aux>>

-----------------------------------------------------------------------------
(* update_from_spotter.py: MissingInvaderSearcher and MissingInvaderSearcherAsync *)

\* what a catalog page may hold, for the searchers of update_from_spotter.py
SpotterRaw == Points \cup {OOR, NoPoint}

\* search_aroundus: a coordinate in range is found
Spotter_search_aroundus(raw) ==
    IF raw # NoPoint /\ InRange(raw[1], raw[2]) THEN Found(raw) ELSE NotFound

\* search_illuminate: a coordinate in range is found
Spotter_search_illuminate(raw) ==
    IF raw # NoPoint /\ InRange(raw[1], raw[2]) THEN Found(raw) ELSE NotFound

\* a mutation of the decision below: AroundUs kept whatever the distance
SpotterAlwaysAroundUs(aroundus, illuminate) ==
    IF aroundus.found
    THEN [SpotterResultStart EXCEPT !.found = TRUE, !.lat = aroundus.lat,
             !.lng = aroundus.lng, !.source = "aroundus", !.geo_confidence = "medium"]
    ELSE IF illuminate.found
    THEN [SpotterResultStart EXCEPT !.found = TRUE, !.lat = illuminate.lat,
             !.lng = illuminate.lng, !.source = "illuminate", !.geo_confidence = "medium"]
    ELSE SpotterResultStart

\* MissingInvaderSearcher.search, "3. Test de cohérence et décision"
MissingInvaderSearcher_search(aroundus, illuminate) ==
    LET distance == calculate_distance(aroundus.lat, aroundus.lng,
                                       illuminate.lat, illuminate.lng)
    IN  IF aroundus.found /\ illuminate.found
        THEN IF distance < 20000
             THEN [SpotterResultStart EXCEPT !.found = TRUE, !.lat = aroundus.lat,
                      !.lng = aroundus.lng, !.source = "aroundus+illuminate",
                      !.geo_confidence = "high", !.distance_m = Round1(distance)]
             ELSE [SpotterResultStart EXCEPT !.found = TRUE, !.lat = illuminate.lat,
                      !.lng = illuminate.lng, !.source = "illuminate",
                      !.geo_confidence = "medium", !.distance_m = Round1(distance)]
        ELSE IF aroundus.found
        THEN [SpotterResultStart EXCEPT !.found = TRUE, !.lat = aroundus.lat,
                 !.lng = aroundus.lng, !.source = "aroundus", !.geo_confidence = "medium"]
        ELSE IF illuminate.found
        THEN [SpotterResultStart EXCEPT !.found = TRUE, !.lat = illuminate.lat,
                 !.lng = illuminate.lng, !.source = "illuminate",
                 !.geo_confidence = "medium"]
        ELSE SpotterResultStart

\* MissingInvaderSearcherAsync.search, "3. Cohérence et décision"
MissingInvaderSearcherAsync_search(aroundus, illuminate) ==
    LET distance == calculate_distance(aroundus.lat, aroundus.lng,
                                       illuminate.lat, illuminate.lng)
    IN  IF aroundus.found /\ illuminate.found
        THEN IF distance < 20000
             THEN [SpotterResultStart EXCEPT !.found = TRUE, !.lat = aroundus.lat,
                      !.lng = aroundus.lng, !.source = "aroundus+illuminate",
                      !.geo_confidence = "high", !.distance_m = Round1(distance)]
             ELSE [SpotterResultStart EXCEPT !.found = TRUE, !.lat = illuminate.lat,
                      !.lng = illuminate.lng, !.source = "illuminate",
                      !.geo_confidence = "medium", !.distance_m = Round1(distance)]
        ELSE IF aroundus.found
        THEN [SpotterResultStart EXCEPT !.found = TRUE, !.lat = aroundus.lat,
                 !.lng = aroundus.lng, !.source = "aroundus", !.geo_confidence = "medium"]
        ELSE IF illuminate.found
        THEN [SpotterResultStart EXCEPT !.found = TRUE, !.lat = illuminate.lat,
                 !.lng = illuminate.lng, !.source = "illuminate",
                 !.geo_confidence = "medium"]
        ELSE SpotterResultStart

\* search, 1.: AroundUs
SpotterSearchAroundUs ==
    /\ pc = "spotter"
    /\ sp.pc = "aroundus"
    /\ \E raw \in SpotterRaw :
         sp' = [sp EXCEPT !.aroundus = Spotter_search_aroundus(raw), !.pc = "illuminate"]
    /\ UNCHANGED <<pc, inv, cfg, s, new_inv, loc, stats, results, invoked, discarded, coh, aux>>

\* search, 2.: IlluminateArt (always)
SpotterSearchIlluminate ==
    /\ pc = "spotter"
    /\ sp.pc = "illuminate"
    /\ \E raw \in SpotterRaw :
         sp' = [sp EXCEPT !.illuminate = Spotter_search_illuminate(raw), !.pc = "decide"]
    /\ UNCHANGED <<pc, inv, cfg, s, new_inv, loc, stats, results, invoked, discarded, coh, aux>>

\* search, 3.: the decision, and the return
SpotterDecide ==
    /\ pc = "spotter"
    /\ sp.pc = "decide"
    /\ sp' = [sp EXCEPT !.pc = "returned",
                 !.result = IF sp.searcher = "MissingInvaderSearcher"
                            THEN MissingInvaderSearcher_search(sp.aroundus, sp.illuminate)
                            ELSE MissingInvaderSearcherAsync_search(sp.aroundus,
                                                                    sp.illuminate)]
    /\ UNCHANGED <<pc, inv, cfg, s, new_inv, loc, stats, results, invoked, discarded, coh, aux>>

-----------------------------------------------------------------------------
Next ==
    \/ SearchAroundUs
    \/ SearchIlluminate
    \/ SearchCoherence
    \/ SearchPnote
    \/ SearchFlickr
    \/ SearchReturn
    \/ TryExif
    \/ TryOcr
    \/ OcrGeocode
    \/ OcrNotFound
    \/ TryVision
    \/ VisionGeocode
    \/ VisionLandmarks
    \/ TryInteractive
    \/ CityCenterFallback
    \/ SpotterSearchAroundUs
    \/ SpotterSearchIlluminate
    \/ SpotterDecide

Spec == Init /\ [][Next]_vars

-----------------------------------------------------------------------------
(* check_coherence as a function of its two arguments *)

\* the result dicts check_coherence may be given
CoherenceInputs == {NotFound} \cup {Found(p) : p \in Points \cup {R1, R2}}

InitCoherence ==
    /\ pc = "check_coherence"
    /\ call = CallIdle
    /\ mg = MergeIdle
    /\ BatchIdle
    /\ PipelineIdle
    /\ sp = SpotterIdle
    /\ coh \in [a : CoherenceInputs, b : CoherenceInputs, out : {CoherenceUnset}]

ApplyCheckCoherence ==
    /\ pc = "check_coherence"
    /\ pc' = "returned"
    /\ coh' = [coh EXCEPT !.out = check_coherence(coh.a, coh.b)]
    /\ UNCHANGED <<inv, cfg, s, new_inv, loc, stats, results, invoked, discarded, sp, aux>>

NextCoherence == ApplyCheckCoherence

SpecCoherence == InitCoherence /\ [][NextCoherence]_vars

-----------------------------------------------------------------------------
(* process_missing_invaders over several objects *)

\* the objects of a run without a browser: no image_lieu, a listed region or not
BatchObjects == [city : {"PA", "XX"}, image_lieu : {FALSE}]

\* the most objects after the first one
MaxTodo == 1

\* process_missing_invaders starts on the first object of the file
InitBatch ==
    /\ pc = "aroundus"
    /\ call = CallIdle
    /\ mg = MergeIdle
    /\ inv \in BatchObjects
    /\ todo \in SeqsUpTo(BatchObjects, MaxTodo)
    /\ output_file = NoFile
    /\ cfg = [no_browser |-> TRUE, down |-> {}]
    /\ s = SearchStart
    /\ new_inv = NewInvStart(inv.city)
    /\ loc = LocStart
    /\ stats = [StatsStart EXCEPT !.total = 1 + Len(todo)]
    /\ results = <<>>
    /\ invoked = <<>>
    /\ discarded = {}
    /\ coh = CoherenceIdle
    /\ sp = SpotterIdle

\* for i, inv in enumerate(missing_invaders, 1): the next object
NextObject ==
    /\ pc = "done"
    /\ todo # <<>>
    /\ inv' = Head(todo)
    /\ todo' = Tail(todo)
    /\ s' = SearchStart
    /\ new_inv' = NewInvStart(Head(todo).city)
    /\ loc' = LocStart
    /\ invoked' = <<>>
    /\ discarded' = {}
    /\ pc' = "aroundus"
    /\ UNCHANGED <<cfg, stats, results, output_file, coh, sp, call, mg>>

\* after the loop: json.dump(results, output_file)
WriteOutput ==
    /\ pc = "done"
    /\ todo = <<>>
    /\ output_file' = results
    /\ pc' = "written"
    /\ UNCHANGED <<inv, cfg, s, new_inv, loc, stats, results, invoked, discarded,
                   todo, coh, sp, call, mg>>

\* the steps of a run without a browser on objects without image_lieu
NextBatch ==
    \/ SearchAroundUs
    \/ SearchIlluminate
    \/ SearchCoherence
    \/ SearchPnote
    \/ SearchFlickr
    \/ SearchReturn
    \/ TryExif
    \/ TryVision
    \/ TryInteractive
    \/ CityCenterFallback
    \/ NextObject
    \/ WriteOutput

SpecBatch == InitBatch /\ [][NextBatch]_vars

-----------------------------------------------------------------------------
(* validate_city_coherence as a function of its arguments *)

\* the coordinates and the region codes validate_city_coherence may be given:
\* LY is a region of CITY_CENTERS with no entry in CITY_MAX_RADIUS
ValidatePoints == Points \cup {cPA, PAin, PAout, LYin, LYout}
ValidateCities == {"", "XX", "SPACE", "PA", "LDN", "LY"}

\* two calls for the same region
InitValidate ==
    /\ pc = "validate_city_coherence"
    /\ PipelineIdle
    /\ coh = CoherenceIdle
    /\ sp = SpotterIdle
    /\ mg = MergeIdle
    /\ BatchIdle
    /\ call \in [fn : {"validate_city_coherence"}, city_code : ValidateCities,
                 first : ValidatePoints, second : ValidatePoints, out : {<<>>}]

ApplyValidate ==
    /\ pc = "validate_city_coherence"
    /\ pc' = "returned"
    /\ call' = [call EXCEPT !.out =
                    <<validate_city_coherence(call.first[1], call.first[2], call.city_code),
                      validate_city_coherence(call.second[1], call.second[2],
                                              call.city_code)>>]
    /\ UNCHANGED <<inv, cfg, s, new_inv, loc, stats, results, invoked, discarded, coh, sp, mg, batch>>

NextValidate == ApplyValidate

SpecValidate == InitValidate /\ [][NextValidate]_vars

-----------------------------------------------------------------------------
(* _pick_best_nominatim_result as a function of its arguments *)

\* the geocoder results and the region codes _pick_best_nominatim_result may be
\* given: cPA is a result exactly at the centre of region PA
PickPoints == {PA1, PA5, cPA, GRN, NZ}
PickCities == {"", "XX", "SPACE", "PA"}

InitPickBest ==
    /\ pc = "pick_best_nominatim_result"
    /\ PipelineIdle
    /\ coh = CoherenceIdle
    /\ sp = SpotterIdle
    /\ mg = MergeIdle
    /\ BatchIdle
    /\ call \in [fn : {"pick_best_nominatim_result"}, city_code : PickCities,
                 results : SeqsUpTo(PickPoints, MaxNominatim), out : {<<>>}]

ApplyPickBest ==
    /\ pc = "pick_best_nominatim_result"
    /\ pc' = "returned"
    /\ call' = [call EXCEPT !.out =
                    <<pick_best_nominatim_result(call.results, call.city_code)>>]
    /\ UNCHANGED <<inv, cfg, s, new_inv, loc, stats, results, invoked, discarded, coh, sp, mg, batch>>

NextPickBest == ApplyPickBest

SpecPickBest == InitPickBest /\ [][NextPickBest]_vars

-----------------------------------------------------------------------------
(* merge_with_updated *)

\* confidence_order.get(conf, 0)
confidence_order(conf) ==
    CASE conf = "high" -> 3
      [] conf = "medium" -> 2
      [] conf = "low" -> 1
      [] OTHER -> 0

\* rec.get('geo_confidence', 'low'); "" stands for a record without the key
GetConfidence(rec) == IF rec.geo_confidence = "" THEN "low" ELSE rec.geo_confidence

\* id.upper().replace('-', '_'), on the ids of the model
NormalizeId(id) == CASE id = "pa-01" -> "PA_01" [] OTHER -> id

Confidences == {"high", "medium", "low", "very_low", ""}

\* invaders_master.json before the merge: one object, at PA1
MasterFiles ==
    {<<[id |-> "PA_01", lat |-> PA1[1], lng |-> PA1[2], geo_source |-> "aroundus",
        geo_confidence |-> c, location_unknown |-> FALSE,
        geo_search_exhausted |-> FALSE, preserved |-> FALSE]>> : c \in Confidences}

\* the records of the geolocated file that hold an observation: the object of
\* the master under another spelling of its id, or a new object
ObservedRecords ==
    {[id |-> d, lat |-> p[1], lng |-> p[2], geo_source |-> "illuminate",
      geo_confidence |-> c, location_unknown |-> FALSE,
      geo_search_exhausted |-> FALSE, preserved |-> FALSE] :
        d \in {"pa-01", "PA_02"}, p \in {GRN, GRN2}, c \in Confidences}

\* the records the unresolved fallback writes: the centre of the region, or
\* (0,0) when the region is unknown
PlaceholderRecords ==
    {[id |-> d, lat |-> p[1], lng |-> p[2],
      geo_source |-> IF p = <<0, 0>> THEN "unknown" ELSE "city_center",
      geo_confidence |-> "low", location_unknown |-> TRUE,
      geo_search_exhausted |-> TRUE, preserved |-> FALSE] :
        d \in {"pa-01", "PA_02"}, p \in {cPA, <<0, 0>>}}

GeolocatedRecords == ObservedRecords \cup PlaceholderRecords

MaxGeolocated == 2

\* existing_ids[geo_id], 0 when geo_id is not a key; built once from the
\* database as loaded
existing_ids(loaded, geo_id) ==
    LET hits == {i \in DOMAIN loaded : NormalizeId(loaded[i].id) = geo_id}
    IN IF hits = {} THEN 0 ELSE CHOOSE i \in hits : \A j \in hits : j <= i

\* a mutation of MergeRecord: no comparison of the confidences
MergeRecordUnconditional(updated_db, loaded, geo_inv) ==
    LET idx == existing_ids(loaded, NormalizeId(geo_inv.id))
    IN IF idx # 0
       THEN [updated_db EXCEPT ![idx] =
                [@ EXCEPT !.lat = geo_inv.lat, !.lng = geo_inv.lng,
                          !.geo_source = geo_inv.geo_source,
                          !.geo_confidence = GetConfidence(geo_inv),
                          !.location_unknown = geo_inv.location_unknown,
                          !.geo_search_exhausted = geo_inv.geo_search_exhausted,
                          !.preserved = TRUE]]
       ELSE Append(updated_db, [geo_inv EXCEPT !.preserved = TRUE])

\* the body of the loop over the geolocated records
MergeRecord(updated_db, loaded, geo_inv) ==
    LET idx == existing_ids(loaded, NormalizeId(geo_inv.id))
    IN IF idx # 0
       THEN LET old_conf == GetConfidence(updated_db[idx])
                new_conf == GetConfidence(geo_inv)
            IN IF confidence_order(new_conf) >= confidence_order(old_conf)
               THEN [updated_db EXCEPT ![idx] =
                        [@ EXCEPT !.lat = geo_inv.lat, !.lng = geo_inv.lng,
                                  !.geo_source = geo_inv.geo_source,
                                  !.geo_confidence = new_conf,
                                  !.location_unknown = geo_inv.location_unknown,
                                  !.geo_search_exhausted = geo_inv.geo_search_exhausted,
                                  !.preserved = TRUE]]
               ELSE updated_db
       ELSE Append(updated_db, [geo_inv EXCEPT !.preserved = TRUE])

\* merge_with_updated is called; both files exist and are loaded
InitMerge ==
    /\ pc = "merge"
    /\ PipelineIdle
    /\ coh = CoherenceIdle
    /\ sp = SpotterIdle
    /\ call = CallIdle
    /\ BatchIdle
    /\ \E master \in MasterFiles, geolocated \in SeqsUpTo(GeolocatedRecords, MaxGeolocated),
          backup \in BOOLEAN, dry_run \in BOOLEAN :
          mg = [geolocated |-> geolocated, before |-> master, updated_db |-> master,
                i |-> 1, backup |-> backup, dry_run |-> dry_run,
                updated_file |-> master, backup_file |-> NoFile]

\* for geo_inv in geolocated
MergeLoop ==
    /\ pc = "merge"
    /\ mg.i <= Len(mg.geolocated)
    /\ mg' = [mg EXCEPT !.updated_db = MergeRecord(@, mg.before, mg.geolocated[mg.i]),
                        !.i = @ + 1]
    /\ UNCHANGED <<pc, inv, cfg, s, new_inv, loc, stats, results, invoked, discarded,
                   coh, sp, call, batch>>

\* if backup and not dry_run: json.dump(updated_db, backup_file)
MergeBackup ==
    /\ pc = "merge"
    /\ mg.i > Len(mg.geolocated)
    /\ pc' = "merge_save"
    /\ mg' = IF mg.backup /\ ~mg.dry_run
             THEN [mg EXCEPT !.backup_file = mg.updated_db]
             ELSE mg
    /\ UNCHANGED <<inv, cfg, s, new_inv, loc, stats, results, invoked, discarded,
                   coh, sp, call, batch>>

\* if not dry_run: json.dump(updated_db, updated_file)
MergeSave ==
    /\ pc = "merge_save"
    /\ pc' = "merged"
    /\ mg' = IF ~mg.dry_run
             THEN [mg EXCEPT !.updated_file = mg.updated_db]
             ELSE mg
    /\ UNCHANGED <<inv, cfg, s, new_inv, loc, stats, results, invoked, discarded,
                   coh, sp, call, batch>>

NextMerge ==
    \/ MergeLoop
    \/ MergeBackup
    \/ MergeSave

SpecMerge == InitMerge /\ [][NextMerge]_vars

-----------------------------------------------------------------------------
(* the radius of a region *)

\* every code of the two tables
RadiusCodes == DOMAIN CITY_CENTERS \cup DOMAIN CITY_MAX_RADIUS

InitRadius ==
    /\ pc = "max_radius"
    /\ PipelineIdle
    /\ coh = CoherenceIdle
    /\ sp = SpotterIdle
    /\ mg = MergeIdle
    /\ BatchIdle
    /\ call \in [fn : {"max_radius"}, city_code : RadiusCodes, out : {None}]

ApplyRadius ==
    /\ pc = "max_radius"
    /\ pc' = "returned"
    /\ call' = [call EXCEPT !.out = max_radius(call.city_code)]
    /\ UNCHANGED <<inv, cfg, s, new_inv, loc, stats, results, invoked, discarded, coh, sp,
                   mg, batch>>

NextRadius == ApplyRadius

SpecRadius == InitRadius /\ [][NextRadius]_vars

-----------------------------------------------------------------------------
(* ImageOCRAnalyzer.find_addresses_in_text and the geocoding loop of analyze *)

\* the address strings the OCR text may give, two of them equal up to case
OcrAddresses == {"RUE DE LA ROQUETTE", "Rue de la Roquette", "12 RUE OBERKAMPF"}

\* the longest list of recombined, and of direct, addresses in the model
MaxAddresses == 2

\* the lists without a repeated entry: direct_addresses is filled under
\* `full_match not in direct_addresses`, recombined comes deduplicated
NoRepeat(q) == \A i, j \in DOMAIN q : i # j => q[i] # q[j]
AddressLists == {q \in SeqsUpTo(OcrAddresses, MaxAddresses) : NoRepeat(q)}

\* for addr in more: if addr not in addresses: addresses.append(addr)
RECURSIVE AppendNew(_, _)
AppendNew(addresses, more) ==
    IF more = <<>> THEN addresses
    ELSE AppendNew(IF \E i \in DOMAIN addresses : addresses[i] = Head(more)
                   THEN addresses ELSE Append(addresses, Head(more)),
                   Tail(more))

\* f"{addr}, {city_name}"
WithCity(addr, city_name) == <<addr, city_name>>

\* a mutation of find_addresses_in_text: the direct addresses first
find_addresses_direct_first(recombined, direct_addresses, city_name) ==
    LET addresses == AppendNew(AppendNew(<<>>, direct_addresses), recombined)
    IN IF addresses # <<>> /\ city_name # ""
       THEN [i \in DOMAIN addresses |-> WithCity(addresses[i], city_name)]
       ELSE addresses

\* find_addresses_in_text, from the two lists it has built
find_addresses_in_text(recombined, direct_addresses, city_name) ==
    LET addresses == AppendNew(AppendNew(<<>>, recombined), direct_addresses)
    IN IF addresses # <<>> /\ city_name # ""
       THEN [i \in DOMAIN addresses |-> WithCity(addresses[i], city_name)]
       ELSE addresses

\* analyze has the text of the image; the two lists are what the text gives
InitOcrAddresses ==
    /\ pc = "find_addresses_in_text"
    /\ PipelineIdle
    /\ coh = CoherenceIdle
    /\ sp = SpotterIdle
    /\ mg = MergeIdle
    /\ BatchIdle
    /\ call \in [fn : {"analyze"}, recombined : AddressLists,
                 direct_addresses : AddressLists, city_name : {"", "Paris"},
                 addresses : {<<>>}, i : {1}, geocoded : {<<>>}, found : {FALSE}]

\* addresses = self.find_addresses_in_text(text, city_name, city_code)
OcrFindAddresses ==
    /\ pc = "find_addresses_in_text"
    /\ call' = [call EXCEPT !.addresses =
                    find_addresses_in_text(call.recombined, call.direct_addresses,
                                           call.city_name)]
    /\ pc' = IF call'.addresses = <<>> THEN "returned" ELSE "geocode_loop"
    /\ UNCHANGED <<inv, cfg, s, new_inv, loc, stats, results, invoked, discarded, coh, sp,
                   mg, batch>>

\* for addr in addresses: geo = self.geocode_address(addr); if geo: ... break
OcrGeocodeAddress ==
    /\ pc = "geocode_loop"
    /\ call.i <= Len(call.addresses)
    /\ \E geo \in BOOLEAN :
         /\ call' = [call EXCEPT !.geocoded = Append(@, [addr |-> call.addresses[call.i],
                                                         geo |-> geo]),
                                 !.found = geo,
                                 !.i = @ + 1]
         /\ pc' = IF geo THEN "returned" ELSE pc
    /\ UNCHANGED <<inv, cfg, s, new_inv, loc, stats, results, invoked, discarded, coh, sp,
                   mg, batch>>

\* the list is used up: 'Géocodage échoué pour toutes les adresses'
OcrAddressesUsedUp ==
    /\ pc = "geocode_loop"
    /\ call.i > Len(call.addresses)
    /\ pc' = "returned"
    /\ UNCHANGED <<inv, cfg, s, new_inv, loc, stats, results, invoked, discarded, coh, sp,
                   aux>>

NextOcrAddresses ==
    \/ OcrFindAddresses
    \/ OcrGeocodeAddress
    \/ OcrAddressesUsedUp

SpecOcrAddresses == InitOcrAddresses /\ [][NextOcrAddresses]_vars

-----------------------------------------------------------------------------
(* ImageOCRAnalyzer._recombine_fragments: OCR fragments recombined into      *)
(* ranked address candidates.  A text is a sequence of lines and a line a    *)
(* sequence of words, as text.upper().split('\n') and line.split() give      *)
(* them; an address is the sequence of its words.  What the code measures on *)
(* the characters of a word is tabulated per word in OcrWordRows.            *)

CityCountryRows ==
  <<<<"LDN", "uk">>, <<"MAN", "uk">>, <<"BRM", "uk">>, <<"LPL", "uk">>,
    <<"EDI", "uk">>, <<"GLA", "uk">>, <<"PA", "fr">>, <<"LYO", "fr">>,
    <<"MRS", "fr">>, <<"BDX", "fr">>, <<"NTE", "fr">>, <<"STR", "fr">>,
    <<"TLS", "fr">>, <<"NCE", "fr">>, <<"REN", "fr">>, <<"VRS", "fr">>,
    <<"ORLN", "fr">>, <<"MLH", "fr">>, <<"NY", "us">>, <<"LA", "us">>,
    <<"SF", "us">>, <<"MIA", "us">>, <<"CHI", "us">>, <<"SD", "us">>,
    <<"TYO", "jp">>, <<"HK", "cn">>, <<"BKK", "th">>, <<"ROM", "it">>,
    <<"AMS", "nl">>, <<"BCN", "es">>, <<"MAD", "es">>, <<"BER", "de">>,
    <<"VIE", "de">>, <<"BRU", "fr">>>>

fr_types_upper ==
    {"ALLÉE", "AVENUE", "BOULEVARD", "CARREFOUR", "CHEMIN", "CITÉ", "COUR",
     "COURS", "ESPLANADE", "FAUBOURG", "GALERIE", "HAMEAU", "IMPASSE",
     "MAIL", "MONTÉE", "PARVIS", "PASSAGE", "PLACE", "PONT", "PORT",
     "PROMENADE", "QUAI", "ROND-POINT", "ROUTE", "RUE", "RUELLE",
     "RÉSIDENCE", "SENTIER", "SQUARE", "TRAVERSE", "VILLA", "VOIE"}

UK_STREET_TYPES_SET ==
    {"ALLEY", "AVE", "AVENUE", "BRIDGE", "CLOSE", "COURT", "CRES",
     "CRESCENT", "CT", "DR", "DRIVE", "GARDENS", "GATE", "GDNS", "GREEN",
     "GROVE", "HILL", "LANE", "LN", "MEWS", "PARK", "PASSAGE", "PL", "PLACE",
     "QUAY", "RD", "ROAD", "ROW", "SQ", "SQUARE", "ST", "STREET", "TER",
     "TERRACE", "WALK", "WAY", "WHARF", "YARD"}

UK_BUILDING_TYPES_SET ==
    {"ABBEY", "ARCADE", "ARMS", "BANK", "BAR", "BUILDING", "CASTLE",
     "CATHEDRAL", "CENTER", "CENTRE", "CHAMBERS", "CHURCH", "COLLEGE",
     "EXCHANGE", "GALLERY", "HALL", "HOSPITAL", "HOTEL", "HOUSE", "INN",
     "LIBRARY", "LODGE", "MANOR", "MANSION", "MARKET", "MUSEUM", "OFFICE",
     "OPERA", "PALACE", "PUB", "SCHOOL", "SHOP", "STATION", "STORE",
     "STUDIOS", "THEATER", "THEATRE", "TOWER", "VILLA"}

KNOWN_FR_NAMES ==
    {"ALESIA", "ALÉSIA", "ARCHIVES", "BAKER", "BASTILLE", "BATIGNOLLES",
     "BEAUMARCHAIS", "BELLEVILLE", "BOND", "BOURGEOIS", "BRETAGNE", "BRICK",
     "BRIXTON", "BUTTES", "CAMDEN", "CARDINAL", "CARNABY", "CHAMPS",
     "CHARONNE", "CHAUMONT", "CLICHY", "CONCORDE", "CONVENTION", "COVENT",
     "DAGUERRE", "DANTON", "DENFERT", "ELYSEES", "FAUBOURG", "FLEET",
     "FOLIE", "FRANCS", "GAMBETTA", "GLACIERE", "GLACIÈRE", "GRENELLE",
     "HAUSSMANN", "HUGO", "JAURES", "JAURÈS", "JEAN", "JOURDAIN", "JUSSIEU",
     "LACHAISE", "LECOURBE", "LEMOINE", "LENOIR", "LEON", "LÉON",
     "MADELEINE", "MAGENTA", "MARAIS", "MENILMONTANT", "MERICOURT",
     "MOLIERE", "MOLIÈRE", "MONGE", "MONTMARTRE", "MOUFFETARD",
     "MÉNILMONTANT", "MÉRICOURT", "OBERKAMPF", "OPERA", "OPÉRA", "OXFORD",
     "PARMENTIER", "PASTEUR", "PERE", "PICCADILLY", "PIERRE", "PIGALLE",
     "POPINCOURT", "PORTOBELLO", "PYRENEES", "PYRÉNÉES", "PÈRE", "RASPAIL",
     "REAUMUR", "REGENT", "REPUBLIQUE", "RICHARD", "RIVOLI", "ROCHEREAU",
     "ROQUETTE", "RÉAUMUR", "RÉPUBLIQUE", "SAINT", "SAINTE", "SEBASTOPOL",
     "SHOREDITCH", "SOHO", "STRAND", "STRASBOURG", "SÉBASTOPOL", "TEMPLE",
     "TIMBAUD", "TOLBIAC", "TURBIGO", "TURENNE", "VAUGIRARD", "VICTOR",
     "VOLTAIRE", "ÉLYSÉES"}

common_uk_names ==
    {"ABBEY", "ARBLAY", "BAKER", "BERWICK", "BOND", "BRICK", "BRIXTON",
     "CAMDEN", "CARNABY", "CHELSEA", "COVENT", "D'ARBLAY", "DANSEY", "DEAN",
     "DOWNING", "FLEET", "FRITH", "GREEK", "ILFORD", "KINGS", "LEICESTER",
     "OXFORD", "PICCADILLY", "POLAND", "PORTOBELLO", "QUEENS", "REGENT",
     "SOHO", "SPRING", "STRAND", "TRAFALGAR", "VICTORIA", "WARDOUR",
     "WHITEHALL"}

OcrWordRows ==
  {[word |-> "RUE", title |-> "Rue", len |-> 3, chars |-> {"E", "R", "U"},
   vowels |-> 2, vowels_fr |-> 2, tripled |-> FALSE, consonants4 |-> FALSE, ii |-> FALSE,
   clean |-> "RUE", clean_len |-> 3, digits_end |-> "", number |-> None, postcode |-> "", letter_digit |-> FALSE],
   [word |-> "DES", title |-> "Des", len |-> 3, chars |-> {"D", "E", "S"},
   vowels |-> 1, vowels_fr |-> 1, tripled |-> FALSE, consonants4 |-> FALSE, ii |-> FALSE,
   clean |-> "DES", clean_len |-> 3, digits_end |-> "", number |-> None, postcode |-> "", letter_digit |-> FALSE],
   [word |-> "DE", title |-> "De", len |-> 2, chars |-> {"D", "E"},
   vowels |-> 1, vowels_fr |-> 1, tripled |-> FALSE, consonants4 |-> FALSE, ii |-> FALSE,
   clean |-> "DE", clean_len |-> 2, digits_end |-> "", number |-> None, postcode |-> "", letter_digit |-> FALSE],
   [word |-> "LA", title |-> "La", len |-> 2, chars |-> {"A", "L"},
   vowels |-> 1, vowels_fr |-> 1, tripled |-> FALSE, consonants4 |-> FALSE, ii |-> FALSE,
   clean |-> "LA", clean_len |-> 2, digits_end |-> "", number |-> None, postcode |-> "", letter_digit |-> FALSE],
   [word |-> "PETITES", title |-> "Petites", len |-> 7, chars |-> {"E", "I", "P", "S", "T"},
   vowels |-> 3, vowels_fr |-> 3, tripled |-> FALSE, consonants4 |-> FALSE, ii |-> FALSE,
   clean |-> "PETITES", clean_len |-> 7, digits_end |-> "", number |-> None, postcode |-> "", letter_digit |-> FALSE],
   [word |-> "ECURIES", title |-> "Ecuries", len |-> 7, chars |-> {"C", "E", "I", "R", "S", "U"},
   vowels |-> 4, vowels_fr |-> 4, tripled |-> FALSE, consonants4 |-> FALSE, ii |-> FALSE,
   clean |-> "ECURIES", clean_len |-> 7, digits_end |-> "", number |-> None, postcode |-> "", letter_digit |-> FALSE],
   [word |-> "12", title |-> "12", len |-> 2, chars |-> {"1", "2"},
   vowels |-> 0, vowels_fr |-> 0, tripled |-> FALSE, consonants4 |-> FALSE, ii |-> FALSE,
   clean |-> "", clean_len |-> 0, digits_end |-> "12", number |-> 12, postcode |-> "", letter_digit |-> FALSE],
   [word |-> "ROQUETTE", title |-> "Roquette", len |-> 8, chars |-> {"E", "O", "Q", "R", "T", "U"},
   vowels |-> 4, vowels_fr |-> 4, tripled |-> FALSE, consonants4 |-> FALSE, ii |-> FALSE,
   clean |-> "ROQUETTE", clean_len |-> 8, digits_end |-> "", number |-> None, postcode |-> "", letter_digit |-> FALSE],
   [word |-> "BOULEVARD", title |-> "Boulevard", len |-> 9, chars |-> {"A", "B", "D", "E", "L", "O", "R", "U", "V"},
   vowels |-> 4, vowels_fr |-> 4, tripled |-> FALSE, consonants4 |-> FALSE, ii |-> FALSE,
   clean |-> "BOULEVARD", clean_len |-> 9, digits_end |-> "", number |-> None, postcode |-> "", letter_digit |-> FALSE],
   [word |-> "VOLTAIRE", title |-> "Voltaire", len |-> 8, chars |-> {"A", "E", "I", "L", "O", "R", "T", "V"},
   vowels |-> 4, vowels_fr |-> 4, tripled |-> FALSE, consonants4 |-> FALSE, ii |-> FALSE,
   clean |-> "VOLTAIRE", clean_len |-> 8, digits_end |-> "", number |-> None, postcode |-> "", letter_digit |-> FALSE],
   [word |-> "SPRING", title |-> "Spring", len |-> 6, chars |-> {"G", "I", "N", "P", "R", "S"},
   vowels |-> 1, vowels_fr |-> 1, tripled |-> FALSE, consonants4 |-> FALSE, ii |-> FALSE,
   clean |-> "SPRING", clean_len |-> 6, digits_end |-> "", number |-> None, postcode |-> "", letter_digit |-> FALSE],
   [word |-> "GARDENS", title |-> "Gardens", len |-> 7, chars |-> {"A", "D", "E", "G", "N", "R", "S"},
   vowels |-> 2, vowels_fr |-> 2, tripled |-> FALSE, consonants4 |-> FALSE, ii |-> FALSE,
   clean |-> "GARDENS", clean_len |-> 7, digits_end |-> "", number |-> None, postcode |-> "", letter_digit |-> FALSE],
   [word |-> "PLACE", title |-> "Place", len |-> 5, chars |-> {"A", "C", "E", "L", "P"},
   vowels |-> 2, vowels_fr |-> 2, tripled |-> FALSE, consonants4 |-> FALSE, ii |-> FALSE,
   clean |-> "PLACE", clean_len |-> 5, digits_end |-> "", number |-> None, postcode |-> "", letter_digit |-> FALSE],
   [word |-> "BAKER", title |-> "Baker", len |-> 5, chars |-> {"A", "B", "E", "K", "R"},
   vowels |-> 2, vowels_fr |-> 2, tripled |-> FALSE, consonants4 |-> FALSE, ii |-> FALSE,
   clean |-> "BAKER", clean_len |-> 5, digits_end |-> "", number |-> None, postcode |-> "", letter_digit |-> FALSE],
   [word |-> "HOUSE", title |-> "House", len |-> 5, chars |-> {"E", "H", "O", "S", "U"},
   vowels |-> 3, vowels_fr |-> 3, tripled |-> FALSE, consonants4 |-> FALSE, ii |-> FALSE,
   clean |-> "HOUSE", clean_len |-> 5, digits_end |-> "", number |-> None, postcode |-> "", letter_digit |-> FALSE],
   [word |-> "HALL", title |-> "Hall", len |-> 4, chars |-> {"A", "H", "L"},
   vowels |-> 1, vowels_fr |-> 1, tripled |-> FALSE, consonants4 |-> FALSE, ii |-> FALSE,
   clean |-> "HALL", clean_len |-> 4, digits_end |-> "", number |-> None, postcode |-> "", letter_digit |-> FALSE],
   [word |-> "10", title |-> "10", len |-> 2, chars |-> {"0", "1"},
   vowels |-> 0, vowels_fr |-> 0, tripled |-> FALSE, consonants4 |-> FALSE, ii |-> FALSE,
   clean |-> "", clean_len |-> 0, digits_end |-> "10", number |-> 10, postcode |-> "", letter_digit |-> FALSE],
   [word |-> "COURS", title |-> "Cours", len |-> 5, chars |-> {"C", "O", "R", "S", "U"},
   vowels |-> 2, vowels_fr |-> 2, tripled |-> FALSE, consonants4 |-> FALSE, ii |-> FALSE,
   clean |-> "COURS", clean_len |-> 5, digits_end |-> "", number |-> None, postcode |-> "", letter_digit |-> FALSE],
   [word |-> "SW1", title |-> "Sw1", len |-> 3, chars |-> {"1", "S", "W"},
   vowels |-> 0, vowels_fr |-> 0, tripled |-> FALSE, consonants4 |-> FALSE, ii |-> FALSE,
   clean |-> "SW", clean_len |-> 2, digits_end |-> "1", number |-> None, postcode |-> "SW1", letter_digit |-> TRUE]}

OcrWords == {r.word : r \in OcrWordRows}

Word(w) == CHOOSE r \in OcrWordRows : r.word = w

CITY_COUNTRIES_get(city_code, default) ==
    IF \E k \in 1..Len(CityCountryRows) : CityCountryRows[k][1] = city_code
    THEN CityCountryRows[CHOOSE k \in 1..Len(CityCountryRows) :
                             CityCountryRows[k][1] = city_code][2]
    ELSE default

RECURSIVE Concat(_)
Concat(qq) ==
    IF Len(qq) = 0 THEN <<>>
    ELSE Concat(SubSeq(qq, 1, Len(qq) - 1)) \o qq[Len(qq)]

RECURSIVE SumOver(_, _)
SumOver(ws, attr) ==
    IF Len(ws) = 0 THEN 0
    ELSE Word(ws[1])[attr] + SumOver(SubSeq(ws, 2, Len(ws)), attr)

\* len() of the string " ".join(ws)
StrLen(ws) == IF Len(ws) = 0 THEN 0 ELSE SumOver(ws, "len") + Len(ws) - 1

\* str.title() and str.upper() of an address
Title(address) == [k \in 1..Len(address) |-> Word(address[k]).title]

UpperWord(w) ==
    IF \E r \in OcrWordRows : r.title = w
    THEN (CHOOSE r \in OcrWordRows : r.title = w).word
    ELSE w

Upper(address) == [k \in 1..Len(address) |-> UpperWord(address[k])]

all_words(lines) == SelectSeq(Concat(lines), LAMBDA w : Word(w).len > 1)

\* full_line.find(street_type): the vocabulary has no word that contains a
\* street type without being it
IndexOf(line, w) ==
    CHOOSE i \in 1..Len(line) : line[i] = w /\ \A j \in 1..(i - 1) : line[j] # w

\* re.sub of the leading article; no vocabulary line puts "DE" or another
\* word in D before a word that is not "LA", so the alternatives DE L' and D'
\* of the pattern never match
strip_articles(ws) ==
    IF Len(ws) >= 3 /\ ws[1] = "DE" /\ ws[2] = "LA" THEN SubSeq(ws, 3, Len(ws))
    ELSE IF Len(ws) >= 2 /\ ws[1] \in {"DU", "DES"} THEN SubSeq(ws, 2, Len(ws))
    ELSE ws

_score_french_address(address, name_part, known_names) ==
    LET words == name_part
        vowels == SumOver(words, "vowels_fr")
        distinct == UNION {Word(words[k]).chars : k \in 1..Len(words)}
    IN  (IF \E k \in 1..Len(words) : words[k] \in known_names THEN 50 ELSE 0)
      + (IF 3 <= StrLen(name_part) /\ StrLen(name_part) <= 40 THEN 20 ELSE 0)
      + (IF Len(words) >= 2 THEN 10 ELSE 0)
      + (IF vowels >= 1 THEN 15 ELSE 0)
      - (IF \E k \in 1..Len(words) : Word(words[k]).tripled THEN 30 ELSE 0)
      - (IF Cardinality(distinct) < 4 THEN 30 ELSE 0)
      - (IF \E k \in 1..Len(words) : Word(words[k]).consonants4 THEN 20 ELSE 0)

found_types(lines) ==
    Concat([i \in 1..Len(lines) |->
               LET types == SelectSeq(lines[i], LAMBDA w : w \in fr_types_upper)
               IN  [k \in 1..Len(types) |-> <<types[k], i>>]])

\* Stratégie 1: the name on the line of the street type
FrenchSameLine(lines, street_type, line_idx) ==
    LET full_line == lines[line_idx]
        type_pos == IndexOf(full_line, street_type)
        after_type == SubSeq(full_line, type_pos + 1, Len(full_line))
        after_clean == strip_articles(after_type)
        before_type == SubSeq(full_line, 1, type_pos - 1)
        num == IF Len(before_type) = 0 THEN ""
               ELSE Word(before_type[Len(before_type)]).digits_end
        address == (IF num # "" THEN <<num>> ELSE <<>>)
                       \o <<street_type>> \o after_type
        score == _score_french_address(address, after_clean, KNOWN_FR_NAMES)
    IN  IF Len(after_clean) > 0 /\ StrLen(after_clean) >= 3 /\ score > 0
        THEN <<<<score, Title(address)>>>>
        ELSE <<>>

\* Stratégie 2: the name on the next line.  The test on the first word of the
\* next line, `X if next_line else '' not in fr_types_upper`, is X for a
\* non-empty line and so always true.
FrenchNextLine(lines, street_type, line_idx) ==
    IF line_idx + 1 <= Len(lines)
    THEN LET next_line == lines[line_idx + 1]
             next_clean == strip_articles(next_line)
             combined == <<street_type>> \o next_line
             score == _score_french_address(combined, next_clean,
                                            KNOWN_FR_NAMES) + 10
         IN  IF Len(next_clean) > 0 /\ StrLen(next_clean) >= 3 /\ score > 0
             THEN <<<<score, Title(combined)>>>>
             ELSE <<>>
    ELSE <<>>

\* Stratégie 3: a known name alone, with every street type found
FrenchKnownNames(lines, types) ==
    LET names == SelectSeq(all_words(lines),
                           LAMBDA w : w \in KNOWN_FR_NAMES
                                      /\ w \notin fr_types_upper)
    IN  Concat([n \in 1..Len(names) |->
                   [k \in 1..Len(types) |->
                       <<60, Title(<<types[k][1], names[n]>>)>>]])

_recombine_french(lines) ==
    LET types == found_types(lines)
    IN  IF Len(types) = 0 THEN <<>>
        ELSE Concat([k \in 1..Len(types) |->
                        FrenchSameLine(lines, types[k][1], types[k][2])
                        \o FrenchNextLine(lines, types[k][1], types[k][2])])
             \o FrenchKnownNames(lines, types)

_score_address(name, fragment, common_names) ==
    LET vowels == Word(name).vowels
    IN  (IF name \in common_names THEN 50 ELSE 0)
      + (IF vowels >= 1 /\ vowels <= Word(name).len - 2 THEN 20 ELSE 0)
      + (IF \E k \in 1..Len(fragment) : Word(fragment[k]).letter_digit
         THEN 30 ELSE 0)
      - (IF Word(name).ii \/ Cardinality(Word(name).chars) < 4 THEN 30 ELSE 0)
      - (IF Word(name).consonants4 THEN 20 ELSE 0)

\* re.findall(r'\b(\d{1,3})\b', line) over the lines, counted
NumbersOf(lines) ==
    SelectSeq(Concat(lines), LAMBDA w : Word(w).number # None)

number_counts(lines, n) ==
    Len(SelectSeq(NumbersOf(lines), LAMBDA w : w = n))

RECURSIVE SortedBy(_, _)
SortedBy(S, lines) ==
    IF S = {} THEN <<>>
    ELSE LET first == CHOOSE n \in S : \A m \in S \ {n} :
                 \/ number_counts(lines, n) > number_counts(lines, m)
                 \/ /\ number_counts(lines, n) = number_counts(lines, m)
                    /\ Word(n).number > Word(m).number
         IN  <<first>> \o SortedBy(S \ {first}, lines)

sorted_numbers(lines) ==
    SortedBy({NumbersOf(lines)[k] : k \in 1..Len(NumbersOf(lines))}, lines)

\* m.group(1) if m else st
StreetFragment(line, st) ==
    IF \E k \in 1..(Len(line) - 1) : line[k] = st /\ Word(line[k + 1]).postcode # ""
    THEN LET k == CHOOSE i \in 1..(Len(line) - 1) :
                      /\ line[i] = st /\ Word(line[i + 1]).postcode # ""
                      /\ \A j \in 1..(i - 1) :
                            ~(line[j] = st /\ Word(line[j + 1]).postcode # "")
         IN  <<st, Word(line[k + 1]).postcode>>
    ELSE <<st>>

\* `for st in UK_STREET_TYPES_SET` visits the set in the order `iteration`
street_fragments(lines, iteration) ==
    Concat([i \in 1..Len(lines) |->
               LET present == SelectSeq(iteration,
                                 LAMBDA st : \E k \in 1..Len(lines[i]) :
                                                lines[i][k] = st)
               IN  [k \in 1..Len(present) |->
                       StreetFragment(lines[i], present[k])]])

building_fragments(lines, iteration) ==
    Concat([i \in 1..Len(lines) |->
               LET present == SelectSeq(iteration,
                                 LAMBDA bt : \E k \in 1..Len(lines[i]) :
                                                lines[i][k] = bt)
               IN  [k \in 1..Len(present) |-> <<present[k]>>]])

potential_names(lines) ==
    LET named == SelectSeq(all_words(lines),
                    LAMBDA w : /\ Word(w).clean_len >= 4
                               /\ Word(w).clean \notin UK_STREET_TYPES_SET
                               /\ Word(w).clean \notin UK_BUILDING_TYPES_SET)
    IN  [k \in 1..Len(named) |-> Word(named[k]).clean]

\* fragment.startswith(name): no vocabulary word begins a street type
\* without being it
startswith(fragment, name) == fragment[1] = name

UkStreetCandidates(name, streets) ==
    Concat([k \in 1..Len(streets) |->
               LET score == _score_address(name, streets[k], common_uk_names)
               IN  IF ~startswith(streets[k], name) /\ score > 0
                   THEN <<<<score, <<name>> \o streets[k]>>>>
                   ELSE <<>>])

UkBuildingCandidates(name, buildings, lines) ==
    Concat([k \in 1..Len(buildings) |->
               LET address == <<name>> \o buildings[k]
                   score == _score_address(name, buildings[k], common_uk_names)
                              + (IF name \in common_uk_names THEN 20 ELSE 0)
                   nums == sorted_numbers(lines)
               IN  IF score > 0
                   THEN [n \in 1..Len(nums) |->
                            <<score + 25 + number_counts(lines, nums[n]) * 5,
                              <<nums[n]>> \o address>>]
                        \o <<<<score, address>>>>
                   ELSE <<>>])

_recombine_uk(lines, iteration) ==
    LET streets == street_fragments(lines, iteration.street)
        buildings == building_fragments(lines, iteration.building)
        names == potential_names(lines)
    IN  Concat([n \in 1..Len(names) |->
                   UkStreetCandidates(names[n], streets)
                   \o UkBuildingCandidates(names[n], buildings, lines)])

RecombinedCandidates(lines, city_code, iteration) ==
    LET country == CITY_COUNTRIES_get(city_code, "fr")
    IN  (IF country \in {"fr", "it", "es", "nl", "de"}
         THEN _recombine_french(lines) ELSE <<>>)
        \o (IF country \in {"uk", "us"}
            THEN _recombine_uk(lines, iteration) ELSE <<>>)
        \o (IF country \notin {"fr", "it", "es", "nl", "de", "uk", "us"}
            THEN _recombine_french(lines) \o _recombine_uk(lines, iteration)
            ELSE <<>>)

\* candidates.sort(key=lambda x: -x[0]): list.sort is stable
RECURSIVE SortByScore(_)
SortByScore(candidates) ==
    IF Len(candidates) = 0 THEN <<>>
    ELSE LET k == CHOOSE i \in 1..Len(candidates) :
                      /\ \A j \in 1..Len(candidates) :
                            candidates[j][1] <= candidates[i][1]
                      /\ \A j \in 1..(i - 1) :
                            candidates[j][1] < candidates[i][1]
         IN  <<candidates[k]>>
             \o SortByScore(SubSeq(candidates, 1, k - 1)
                            \o SubSeq(candidates, k + 1, Len(candidates)))

MinScore == 40
TopCandidates == 5

\* mutation: the duplicate test compares the addresses, not their upper case
RECURSIVE UniqueCaseSensitive(_, _)
UniqueCaseSensitive(candidates, seen) ==
    IF Len(candidates) = 0 THEN <<>>
    ELSE LET key == candidates[1][2]
             rest == SubSeq(candidates, 2, Len(candidates))
         IN  IF key \notin seen /\ candidates[1][1] >= MinScore
             THEN <<candidates[1]>> \o UniqueCaseSensitive(rest, seen \cup {key})
             ELSE UniqueCaseSensitive(rest, seen)

RECURSIVE Unique(_, _)
Unique(candidates, seen) ==
    IF Len(candidates) = 0 THEN <<>>
    ELSE LET key == Upper(candidates[1][2])
             rest == SubSeq(candidates, 2, Len(candidates))
         IN  IF key \notin seen /\ candidates[1][1] >= MinScore
             THEN <<candidates[1]>> \o Unique(rest, seen \cup {key})
             ELSE Unique(rest, seen)

FirstN(q, n) == SubSeq(q, 1, IF Len(q) < n THEN Len(q) ELSE n)

Addresses(unique) == [k \in 1..Len(unique) |-> unique[k][2]]

\* the lines OCR may read on an image
OcrLines ==
    {<<"RUE", "DES", "PETITES", "ECURIES">>,
     <<"12", "RUE", "DE", "LA", "ROQUETTE">>,
     <<"BOULEVARD">>,
     <<"VOLTAIRE">>,
     <<"SPRING", "GARDENS", "PLACE">>,
     <<"BAKER", "HOUSE", "HALL", "10">>,
     <<"COURS", "GARDENS", "SW1">>}

MaxLines == 2

OcrTexts == SeqsUpTo(OcrLines, MaxLines)

\* one region per branch of the country test: French, UK, neither
RecombineCities == {"PA", "LDN", "TYO"}

Orders(S) ==
    {o \in [1..Cardinality(S) -> S] :
        \A a, b \in 1..Cardinality(S) : a # b => o[a] # o[b]}

\* The order in which a process iterates over a set of strings follows the
\* hashes of the strings, which Python draws anew for every process: any
\* order of the types the texts can hold.
SetIterations ==
    [street : Orders(UK_STREET_TYPES_SET \cap OcrWords),
     building : Orders(UK_BUILDING_TYPES_SET \cap OcrWords)]

Processes == {1, 2}

\* the same text and region handed to _recombine_fragments in two processes
InitRecombine ==
    /\ pc = "_recombine_fragments"
    /\ PipelineIdle
    /\ coh = CoherenceIdle
    /\ sp = SpotterIdle
    /\ mg = MergeIdle
    /\ BatchIdle
    /\ call \in [fn : {"_recombine_fragments"}, text : OcrTexts,
                 city_code : RecombineCities, process : {1},
                 iteration : [Processes -> SetIterations],
                 candidates : {[p \in Processes |-> <<>>]},
                 unique : {[p \in Processes |-> <<>>]},
                 returned : {[p \in Processes |-> <<>>]},
                 done : {{}}]

\* candidates.extend(self._recombine_french(...)) / _recombine_uk(...)
RecombineFragments ==
    /\ pc = "_recombine_fragments"
    /\ call' = [call EXCEPT !.candidates[call.process] =
                    RecombinedCandidates(call.text, call.city_code,
                                         call.iteration[call.process])]
    /\ pc' = "sort"
    /\ UNCHANGED <<inv, cfg, s, new_inv, loc, stats, results, invoked, discarded, coh, sp,
                   mg, batch>>

\* candidates.sort(key=lambda x: -x[0]) and the loop that fills unique
SortAndDeduplicate ==
    /\ pc = "sort"
    /\ call' = [call EXCEPT !.unique[call.process] =
                    Unique(SortByScore(call.candidates[call.process]), {})]
    /\ pc' = "return"
    /\ UNCHANGED <<inv, cfg, s, new_inv, loc, stats, results, invoked, discarded, coh, sp,
                   mg, batch>>

\* return [addr for score, addr in unique[:5]]
ReturnCandidates ==
    /\ pc = "return"
    /\ call' = [call EXCEPT !.returned[call.process] =
                    Addresses(FirstN(call.unique[call.process], TopCandidates)),
                            !.done = @ \cup {call.process},
                            !.process = IF @ = 1 THEN 2 ELSE @]
    /\ pc' = IF call.process = 1 THEN "_recombine_fragments" ELSE "returned"
    /\ UNCHANGED <<inv, cfg, s, new_inv, loc, stats, results, invoked, discarded, coh, sp,
                   mg, batch>>

NextRecombine ==
    \/ RecombineFragments
    \/ SortAndDeduplicate
    \/ ReturnCandidates

SpecRecombine == InitRecombine /\ [][NextRecombine]_vars

-----------------------------------------------------------------------------
(* main, mode --from-master: the objects of the master to geolocate again *)

\* inv.get(key, default)
GetKey(d, key, default) == IF key \in DOMAIN d THEN d[key] ELSE default

\* is_poorly_located(inv): <<needs_geo, reason>>
is_poorly_located(rec, retry_failed) ==
    LET lat == GetKey(rec, "lat", None)
        lng == GetKey(rec, "lng", None)
        exhausted_skip == GetKey(rec, "geo_search_exhausted", FALSE) /\ ~retry_failed
    IN  IF lat = None \/ lng = None THEN <<TRUE, "no_coords">>
        ELSE IF lat = 0 /\ lng = 0 THEN <<TRUE, "zero_coords">>
        ELSE IF Abs(lat) < 10 /\ Abs(lng) < 10 THEN <<TRUE, "near_zero">>
        ELSE IF GetKey(rec, "location_unknown", FALSE)
             THEN IF exhausted_skip THEN <<FALSE, "search_exhausted_skip">>
                  ELSE <<TRUE, "location_unknown">>
        ELSE IF GetKey(rec, "geo_source", "") = "city_center"
             THEN IF exhausted_skip THEN <<FALSE, "search_exhausted_skip">>
                  ELSE <<TRUE, "city_center_tag">>
        ELSE IF GetKey(rec, "geo_confidence", "") = "very_low"
             THEN IF exhausted_skip THEN <<FALSE, "search_exhausted_skip">>
                  ELSE <<TRUE, "very_low_confidence">>
        ELSE IF /\ rec.city \in DOMAIN CITY_CENTERS
                /\ lat = CITY_CENTERS[rec.city].lat
                /\ lng = CITY_CENTERS[rec.city].lng
             THEN IF exhausted_skip THEN <<FALSE, "search_exhausted_skip">>
                  ELSE <<TRUE, "at_city_center">>
        ELSE <<FALSE, "">>

\* the record the unresolved fallback wrote for an object of the region, as
\* merge_with_updated stores it in the master
FallbackMasterRecord(city_code) ==
    SetKey(CityCenterRecord(NewInvStart(city_code), city_code), "preserved", TRUE)

\* every region of CITY_CENTERS and one it does not list
MasterRegions == DOMAIN CITY_CENTERS \cup {"XX"}

\* records of the master that no fallback wrote: a real observation, one at
\* the very centre of its region, one of confidence very_low, one without
\* coordinates, one next to (0,0)
ObservedMasterRecords ==
    {[NewInvStart("PA") EXCEPT !.lat = p[1], !.lng = p[2], !.geo_source = "aroundus",
                               !.geo_confidence = c, !.location_unknown = FALSE] :
         p \in {PA1, cPA, NZ, <<5, -3>>}, c \in {"high", "very_low"}}
    \cup {NewInvStart("PA"), [NewInvStart("PA") EXCEPT !.location_unknown = FALSE]}

MasterRecords ==
    {FallbackMasterRecord(c) : c \in MasterRegions} \cup ObservedMasterRecords

\* --from-master is given, with or without --retry-failed and --id; the
\* master holds one object
InitFromMaster ==
    /\ pc = "parse_args"
    /\ PipelineIdle
    /\ coh = CoherenceIdle
    /\ sp = SpotterIdle
    /\ mg = MergeIdle
    /\ BatchIdle
    /\ call \in [fn : {"from_master"}, master_db : {<<r>> : r \in MasterRecords},
                 retry_failed : BOOLEAN, invader_id : BOOLEAN,
                 poorly_located : {<<>>}, exhausted_skip_count : {0}]

\* --id implies --from-master and --retry-failed
FromMasterArgs ==
    /\ pc = "parse_args"
    /\ call' = [call EXCEPT !.retry_failed = @ \/ call.invader_id]
    /\ pc' = "identify"
    /\ UNCHANGED <<inv, cfg, s, new_inv, loc, stats, results, invoked, discarded, coh, sp,
                   mg, batch>>

\* for inv in candidates: needs_geo, reason = is_poorly_located(inv)
FromMasterIdentify ==
    /\ pc = "identify"
    /\ LET verdict == is_poorly_located(call.master_db[1], call.retry_failed)
       IN  call' = [call EXCEPT
                       !.poorly_located =
                           IF verdict[1] THEN Append(@, call.master_db[1]) ELSE @,
                       !.exhausted_skip_count =
                           IF ~verdict[1] /\ verdict[2] = "search_exhausted_skip"
                           THEN @ + 1 ELSE @]
    /\ pc' = "selected"
    /\ UNCHANGED <<inv, cfg, s, new_inv, loc, stats, results, invoked, discarded, coh, sp,
                   mg, batch>>

\* if not poorly_located: with --id the search is forced, without it the run
\* ends there
FromMasterForce ==
    /\ pc = "selected"
    /\ call.poorly_located = <<>>
    /\ call' = [call EXCEPT !.poorly_located =
                    IF call.invader_id THEN call.master_db ELSE @]
    /\ pc' = IF call.invader_id THEN "geolocate" ELSE "returned"
    /\ UNCHANGED <<inv, cfg, s, new_inv, loc, stats, results, invoked, discarded, coh, sp,
                   mg, batch>>

\* the objects selected are handed to process_missing_invaders
FromMasterGeolocate ==
    /\ pc = "selected"
    /\ call.poorly_located # <<>>
    /\ pc' = "geolocate"
    /\ UNCHANGED <<inv, cfg, s, new_inv, loc, stats, results, invoked, discarded, coh, sp,
                   aux>>

NextFromMaster ==
    \/ FromMasterArgs
    \/ FromMasterIdentify
    \/ FromMasterForce
    \/ FromMasterGeolocate

SpecFromMaster == InitFromMaster /\ [][NextFromMaster]_vars

-----------------------------------------------------------------------------
(* update_from_spotter.py: fetch_url *)

MaxRetries == 3

\* what urlopen or response.read() may raise
FetchErrors == {"URLError", "HTTPError", "timeout"}

\* the bytes a response may hold: valid UTF-8 or not, with a byte order mark
\* or not
FetchContents == [body : {"invaders"}, utf8 : BOOLEAN, bom : BOOLEAN]

\* for enc in ['utf-8-sig', 'utf-8', 'latin-1']: return content.decode(enc).
\* utf-8-sig decodes what is valid UTF-8 and drops the mark; utf-8 fails where
\* utf-8-sig did; latin-1 decodes any bytes and keeps the bytes of the mark.
DecodeContent(content) ==
    IF content.utf8
    THEN [text |-> content.body, enc |-> "utf-8-sig", mark |-> FALSE]
    ELSE [text |-> content.body, enc |-> "latin-1", mark |-> content.bom]

\* the value None of fetch_url, among the decoded contents
FetchedNone == [text |-> "", enc |-> "", mark |-> FALSE]

\* an attempt: what it raised, or the content it read
Raises(e) == [raised |-> e, content |-> [body |-> "", utf8 |-> FALSE, bom |-> FALSE]]

Reads(content) == [raised |-> "", content |-> content]

\* for attempt in range(retries)
InitFetch ==
    /\ pc = "fetch_url"
    /\ PipelineIdle
    /\ coh = CoherenceIdle
    /\ sp = SpotterIdle
    /\ mg = MergeIdle
    /\ BatchIdle
    /\ call \in [fn : {"fetch_url"}, retries : 0..MaxRetries, attempt : {0},
                 opened : {<<>>}, printed : {<<>>}, slept : {<<>>},
                 returned : {FetchedNone}]

\* urlopen and read succeed: the decoded content is returned
FetchSucceeds ==
    /\ pc = "fetch_url"
    /\ call.attempt < call.retries
    /\ \E content \in FetchContents :
          call' = [call EXCEPT !.opened = Append(@, Reads(content)),
                               !.returned = DecodeContent(content)]
    /\ pc' = "returned"
    /\ UNCHANGED <<inv, cfg, s, new_inv, loc, stats, results, invoked, discarded, coh, sp,
                   mg, batch>>

\* a mutation of FetchFails: the wait follows the last attempt too
FetchFailsAlwaysSleeps ==
    /\ pc = "fetch_url"
    /\ call.attempt < call.retries
    /\ \E e \in FetchErrors :
          call' = [call EXCEPT !.opened = Append(@, Raises(e)),
                               !.printed = Append(@, <<call.attempt + 1, call.retries, e>>),
                               !.slept = Append(@, 2 ^ call.attempt),
                               !.attempt = @ + 1]
    /\ UNCHANGED <<pc, inv, cfg, s, new_inv, loc, stats, results, invoked, discarded, coh,
                   sp, mg, batch>>

\* except Exception as e: print; if attempt < retries - 1: time.sleep(2 ** attempt)
FetchFails ==
    /\ pc = "fetch_url"
    /\ call.attempt < call.retries
    /\ \E e \in FetchErrors :
          call' = [call EXCEPT !.opened = Append(@, Raises(e)),
                               !.printed = Append(@, <<call.attempt + 1, call.retries, e>>),
                               !.slept = IF call.attempt < call.retries - 1
                                         THEN Append(@, 2 ^ call.attempt) ELSE @,
                               !.attempt = @ + 1]
    /\ UNCHANGED <<pc, inv, cfg, s, new_inv, loc, stats, results, invoked, discarded, coh,
                   sp, mg, batch>>

\* the range is used up: return None
FetchGivesUp ==
    /\ pc = "fetch_url"
    /\ call.attempt >= call.retries
    /\ pc' = "returned"
    /\ UNCHANGED <<inv, cfg, s, new_inv, loc, stats, results, invoked, discarded, coh, sp,
                   aux>>

NextFetch ==
    \/ FetchSucceeds
    \/ FetchFails
    \/ FetchGivesUp

SpecFetch == InitFetch /\ [][NextFetch]_vars

\* urlopen is given a timeout and time.sleep a finite time: an attempt that
\* has begun ends, by a response or by an exception
SpecFetchFair == SpecFetch /\ WF_vars(NextFetch)

-----------------------------------------------------------------------------
(* Properties *)

\* the record emitted for the object, once process_missing_invaders is done with it
Emitted == pc = "done" /\ Len(results) = 1

RealSources ==
    {"aroundus", "illuminateartofficial", "pnote", "flickr",
     "exif_image_lieu", "ocr", "vision", "interactive"}

FallbackSources == {"pnote", "flickr", "exif_image_lieu", "ocr", "vision", "interactive"}

FallbackProviders == {"pnote", "flickr", "exif", "ocr", "vision", "interactive"}

KnownRegion(city_code) == city_code \in DOMAIN CITY_CENTERS /\ city_code # "SPACE"

RadiusOf(city_code) ==
    IF city_code \in DOMAIN CITY_MAX_RADIUS THEN CITY_MAX_RADIUS[city_code]
    ELSE DEFAULT_CITY_RADIUS

\* C1: for an object of a region listed in CITY_CENTERS (SPACE apart), a record
\* emitted with a real source lies within the region's max radius of the
\* region's centre, whatever the providers return.
C1_AcceptedWithinRegion ==
    \A i \in DOMAIN results :
        (KnownRegion(results[i].city) /\ results[i].geo_source \in RealSources) =>
            calculate_distance(results[i].lat, results[i].lng,
                               CITY_CENTERS[results[i].city].lat,
                               CITY_CENTERS[results[i].city].lng)
                <= RadiusOf(results[i].city)

\* C2: for every provider and every region code, a record emitted as found
\* (location_unknown false) never carries a coordinate with |lat| < 0.01 and
\* |lng| < 0.01.
C2_NoZeroSentinelFound ==
    \A i \in DOMAIN results :
        results[i].location_unknown = FALSE =>
            ~IsZeroSentinel(results[i].lat, results[i].lng)

\* InvaderLocationSearcher.search has returned (process_missing_invaders goes on)
SearchReturned ==
    pc \in {"done", "exif", "ocr", "ocr_geocode", "vision", "vision_geocode",
            "interactive", "fallback", "interrupted"}

\* C3, for InvaderLocationSearcher.search: both catalogs valid => Catalog A's
\* coordinate is returned, whatever the coherence status.
C3_PipelineReturnsCatalogA ==
    (SearchReturned /\ s.aroundus_valid /\ s.illuminate_valid) =>
        /\ s.found
        /\ s.lat = s.aroundus_result.lat
        /\ s.lng = s.aroundus_result.lng
        /\ s.source = "aroundus"

SpotterBothFound == sp.pc = "returned" /\ sp.aroundus.found /\ sp.illuminate.found

SpotterDistance ==
    calculate_distance(sp.aroundus.lat, sp.aroundus.lng,
                       sp.illuminate.lat, sp.illuminate.lng)

\* C3 (as the code has it): when both catalogs yield a valid candidate,
\* InvaderLocationSearcher.search returns Catalog A's coordinate for every
\* coherence status; MissingInvaderSearcher.search and
\* MissingInvaderSearcherAsync.search return Catalog A's coordinate when the two
\* candidates are less than 200 m apart and Catalog B's coordinate otherwise.
C3_CatalogAUnlessSpotterConflict ==
    /\ C3_PipelineReturnsCatalogA
    /\ SpotterBothFound =>
          /\ sp.result.found
          /\ IF SpotterDistance < 20000
             THEN /\ sp.result.lat = sp.aroundus.lat
                  /\ sp.result.lng = sp.aroundus.lng
                  /\ sp.result.source = "aroundus+illuminate"
             ELSE /\ sp.result.lat = sp.illuminate.lat
                  /\ sp.result.lng = sp.illuminate.lng
                  /\ sp.result.source = "illuminate"

\* C3 reached: a searcher of update_from_spotter.py returned with both catalogs
\* found, 200 m or more apart, and Catalog B's coordinate as its result
C3_SpotterConflictReached ==
    /\ SpotterBothFound
    /\ SpotterDistance >= 20000
    /\ sp.result.found
    /\ <<sp.result.lat, sp.result.lng>> = <<sp.illuminate.lat, sp.illuminate.lng>>
    /\ <<sp.result.lat, sp.result.lng>> # <<sp.aroundus.lat, sp.aroundus.lng>>

\* C3 as stated: whenever both catalogs yield a valid candidate the searcher
\* returns Catalog A's coordinate, for every coherence status, in
\* InvaderLocationSearcher.search, MissingInvaderSearcher.search and
\* MissingInvaderSearcherAsync.search alike.
C3_AlwaysCatalogA ==
    /\ C3_PipelineReturnsCatalogA
    /\ SpotterBothFound =>
          /\ sp.result.found
          /\ sp.result.lat = sp.aroundus.lat
          /\ sp.result.lng = sp.aroundus.lng

\* both catalogs returned region-valid candidates less than 200 m apart
BothValidWithin200 ==
    /\ s.aroundus_valid
    /\ s.illuminate_valid
    /\ calculate_distance(s.aroundus_result.lat, s.aroundus_result.lng,
                          s.illuminate_result.lat, s.illuminate_result.lng) < 20000

\* C4: an emitted record has geo_confidence high if and only if both catalogs
\* returned region-valid candidates less than 200 m apart; when both are valid
\* and 200 m or more apart the confidence is medium.
C4_HighIffBothValidWithin200 ==
    Emitted =>
        /\ (results[1].geo_confidence = "high") <=> BothValidWithin200
        /\ (s.aroundus_valid /\ s.illuminate_valid /\ ~BothValidWithin200) =>
               results[1].geo_confidence = "medium"

\* C5: when exactly one of the two catalogs yields a region-valid candidate, the
\* pipeline resolves with that catalog's coordinate and source, coherence status
\* single_source and geo_confidence medium, and no fallback provider is asked.
C5_SingleCatalogResolves ==
    (Emitted /\ s.aroundus_valid # s.illuminate_valid) =>
        LET only == IF s.aroundus_valid THEN s.aroundus_result ELSE s.illuminate_result
            name == IF s.aroundus_valid THEN "aroundus" ELSE "illuminateartofficial"
        IN  /\ results[1].lat = only.lat
            /\ results[1].lng = only.lng
            /\ results[1].geo_source = name
            /\ results[1].location_unknown = FALSE
            /\ s.coherence.status = "single_source"
            /\ results[1].geo_confidence = "medium"
            /\ \A i \in DOMAIN invoked : invoked[i] \notin FallbackProviders

\* C6: when neither catalog is valid and a fallback source yields the accepted
\* coordinate, the emitted record has geo_confidence medium, whichever source it
\* is and whatever the source reports about itself.
C6_FallbackIsMedium ==
    \A i \in DOMAIN results :
        (~s.aroundus_valid /\ ~s.illuminate_valid
            /\ results[i].geo_source \in FallbackSources) =>
                results[i].geo_confidence = "medium"

\* the fixed order of the providers
ProviderRank(p) ==
    CASE p = "aroundus" -> 1
      [] p = "illuminateartofficial" -> 2
      [] p = "pnote" -> 3
      [] p = "flickr" -> 4
      [] p = "exif" -> 5
      [] p = "ocr" -> 6
      [] p = "vision" -> 7
      [] p = "interactive" -> 8

\* no candidate is accepted so far for the object
NothingAccepted ==
    /\ ~s.aroundus_valid
    /\ ~s.illuminate_valid
    /\ s.best_source = ""
    /\ results = <<>>
    /\ stats.found = 0

\* a step that invokes a provider: it comes after every provider invoked before
\* (the interactive prompt may be shown again), and a fallback provider is
\* invoked only while nothing is accepted
C7_Step ==
    invoked' # invoked =>
        /\ Len(invoked') = Len(invoked) + 1
        /\ SubSeq(invoked', 1, Len(invoked)) = invoked
        /\ LET p == invoked'[Len(invoked')] IN
             /\ \A i \in DOMAIN invoked :
                    \/ ProviderRank(invoked[i]) < ProviderRank(p)
                    \/ (p = "interactive" /\ invoked[i] = "interactive")
             /\ p \in FallbackProviders => NothingAccepted

\* C7: fallback providers are tried in the order pnote, flickr, EXIF, OCR,
\* vision, interactive, and a provider is invoked only if the two catalogs and
\* every earlier fallback provider yielded no accepted candidate: once a
\* candidate is accepted, no later provider is invoked for the object.
C7_FallbackOrder == [][C7_Step]_vars

\* C7 reached: every provider was invoked, in order, and the last one resolved
C7_AllProvidersTried ==
    /\ Emitted
    /\ invoked = <<"aroundus", "illuminateartofficial", "pnote", "flickr",
                   "exif", "ocr", "vision", "interactive">>
    /\ results[1].geo_source = "interactive"

\* C8: if no provider yields an accepted candidate for an object whose region is
\* in CITY_CENTERS, the emitted record is the region-centre placeholder: the
\* centre's lat/lng, geo_source city_center, geo_confidence low,
\* location_unknown true, geo_search_exhausted true and geo_search_date set.
C8_RegionCentrePlaceholder ==
    (pc = "done" /\ stats.found = 0 /\ inv.city \in DOMAIN CITY_CENTERS) =>
        /\ Len(results) = 1
        /\ results[1].lat = CITY_CENTERS[inv.city].lat
        /\ results[1].lng = CITY_CENTERS[inv.city].lng
        /\ results[1].geo_source = "city_center"
        /\ results[1].geo_confidence = "low"
        /\ results[1].location_unknown = TRUE
        /\ "geo_search_exhausted" \in DOMAIN results[1]
        /\ results[1].geo_search_exhausted = TRUE
        /\ "geo_search_date" \in DOMAIN results[1]
        /\ results[1].geo_search_date = "now"

\* C8 reached: an object of region PA went through every provider, candidates
\* were dropped by region validation, none was accepted, and the record is out
C8_PlaceholderReached ==
    /\ Emitted
    /\ inv.city = "PA"
    /\ stats.found = 0
    /\ Len(invoked) = 8
    /\ discarded # {}
    /\ results[1].lat = 488566
    /\ results[1].geo_source = "city_center"

\* the rejected list that goes with the record emitted for the object: the
\* record's own list if it has one, and the list search() returned
RejectedListed ==
    (IF Emitted /\ "rejected_sources" \in DOMAIN results[1]
     THEN {results[1].rejected_sources[i] : i \in DOMAIN results[1].rejected_sources}
     ELSE {})
    \cup {s.rejected_sources[i] : i \in DOMAIN s.rejected_sources}

\* C9: every candidate discarded because it fails region validation (from a
\* catalog, pnote, flickr, a geocoding result of the OCR path, or the vision
\* provider) is recorded with its provider and coordinate in the rejected list
\* of the output emitted for the object.
C9_RejectedAreRecorded ==
    Emitted =>
        \A d \in discarded :
            \E e \in RejectedListed :
                e.source = d.source /\ e.lat = d.lat /\ e.lng = d.lng

\* the status C10 gives to a distance (centimetres) between two present candidates
StatusOfDistance(d) ==
    IF d < 5000 THEN "excellent"
    ELSE IF d < 20000 THEN "good"
    ELSE IF d < 50000 THEN "warning"
    ELSE "conflict"

\* C10: check_coherence gives two present candidates the status of their
\* distance (excellent < 50 m <= good < 200 m <= warning < 500 m <= conflict),
\* single_source when exactly one is present and not_found when neither is,
\* a found candidate being present whatever its coordinate (0.0 included).
C10_CoherenceBuckets ==
    pc = "returned" =>
        coh.out.status =
            IF coh.a.found /\ coh.b.found
            THEN StatusOfDistance(calculate_distance(coh.a.lat, coh.a.lng,
                                                     coh.b.lat, coh.b.lng))
            ELSE IF coh.a.found # coh.b.found THEN "single_source"
            ELSE "not_found"


\* validate_city_coherence has returned for both coordinates
ValidateReturned == pc = "returned" /\ call.fn = "validate_city_coherence"

\* the distance of a coordinate to the centre of a region of CITY_CENTERS
DistanceToCentre(p, city_code) ==
    calculate_distance(p[1], p[2], CITY_CENTERS[city_code].lat,
                       CITY_CENTERS[city_code].lng)

\* what C11 says of one result
C11_ResultOk(p, city_code, out) ==
    IF city_code = "" \/ city_code \notin DOMAIN CITY_CENTERS \/ city_code = "SPACE"
    THEN out.valid /\ out.distance_to_center = None
    ELSE out.valid <=> (DistanceToCentre(p, city_code) <= RadiusOf(city_code))

\* C11: validate_city_coherence returns valid with no distance when the region
\* code is empty, absent from CITY_CENTERS or SPACE; for any other region it
\* returns valid exactly when the distance to the centre is at most the region's
\* radius, so of two coordinates of one region the farther one is never valid
\* when the nearer one is invalid.
C11_ValidateCityCoherence ==
    ValidateReturned =>
        /\ C11_ResultOk(call.first, call.city_code, call.out[1])
        /\ C11_ResultOk(call.second, call.city_code, call.out[2])
        /\ (KnownRegion(call.city_code)
              /\ DistanceToCentre(call.first, call.city_code)
                    <= DistanceToCentre(call.second, call.city_code)
              /\ call.out[2].valid) => call.out[1].valid

\* C11 reached: region PA, a coordinate just inside the 40 km radius found
\* valid and one just outside it found invalid
C11_RadiusBoundaryReached ==
    /\ ValidateReturned
    /\ call.city_code = "PA"
    /\ call.first = PAin
    /\ call.second = PAout
    /\ call.out[1].valid
    /\ ~call.out[2].valid


\* _pick_best_nominatim_result has returned
PickBestReturned == pc = "returned" /\ call.fn = "pick_best_nominatim_result"

\* the results that are not the (0, 0) sentinel
PickNonZero(response) ==
    {i \in DOMAIN response : ~IsZeroSentinel(response[i][1], response[i][2])}

\* of those, the ones that pass the validation of the region
PickEligible(response, city_code) ==
    {i \in PickNonZero(response) :
        validate_city_coherence(response[i][1], response[i][2], city_code).valid}

\* the distance to the centre of the region, 0 where the region has none (SPACE)
PickDistance(p, city_code) ==
    IF city_code = "SPACE" THEN 0 ELSE DistanceToCentre(p, city_code)

\* C12: for a region of CITY_CENTERS, _pick_best_nominatim_result returns a
\* result whenever some result is not the (0, 0) sentinel and passes the region
\* validation (a result exactly at the centre and any result for SPACE
\* included), and the one returned is such a result with the smallest distance
\* to the centre; with no known region it returns the first non-zero result.
C12_PickBestNearestValid ==
    PickBestReturned =>
        LET response == call.results
            city_code == call.city_code
            best == call.out[1] IN
        IF city_code # "" /\ city_code \in DOMAIN CITY_CENTERS
        THEN IF PickEligible(response, city_code) = {}
             THEN best = NoPoint
             ELSE \E i \in PickEligible(response, city_code) :
                    /\ best = response[i]
                    /\ \A j \in PickEligible(response, city_code) :
                          PickDistance(response[i], city_code)
                              <= PickDistance(response[j], city_code)
        ELSE IF PickNonZero(response) = {}
             THEN best = NoPoint
             ELSE \E i \in PickNonZero(response) :
                    /\ best = response[i]
                    /\ \A j \in PickNonZero(response) : i <= j


\* the rank of a stored or incoming record in high > medium > low
RankOf(rec) == confidence_order(GetConfidence(rec))

\* one step of a merge, for the object stored at idx
C13_StepAt(idx) ==
    /\ RankOf(mg'.updated_db[idx]) >= RankOf(mg.updated_db[idx])
    /\ RankOf(mg'.updated_file[idx]) >= RankOf(mg.updated_file[idx])
    /\ (<<mg'.updated_db[idx].lat, mg'.updated_db[idx].lng>>
            # <<mg.updated_db[idx].lat, mg.updated_db[idx].lng>>)
         => RankOf(mg.geolocated[mg.i]) >= RankOf(mg.updated_db[idx])

\* C13: merge_with_updated respects high > medium > low: no step of a merge
\* lowers the geo_confidence stored for an object, in the database being merged
\* or in the master file, and the stored coordinates are never replaced by
\* those of an incoming record of strictly lower confidence.
C13_ConfidenceNeverLowered ==
    [][\A idx \in DOMAIN mg.before : C13_StepAt(idx)]_vars

\* C13 reached: a medium object was raised to high by a first record and a
\* second record of confidence low for the same object, elsewhere, was not
\* taken; the master file is written
C13_LowerIncomingSkipped ==
    /\ pc = "merged"
    /\ ~mg.dry_run
    /\ mg.before[1].geo_confidence = "medium"
    /\ Len(mg.geolocated) = 2
    /\ mg.geolocated[1].id = "pa-01" /\ mg.geolocated[1].geo_confidence = "high"
    /\ mg.geolocated[1].lat = GRN[1]
    /\ mg.geolocated[2].id = "pa-01" /\ mg.geolocated[2].geo_confidence = "low"
    /\ mg.geolocated[2].lat = GRN2[1]
    /\ mg.updated_file[1].geo_confidence = "high"
    /\ mg.updated_file[1].lat = GRN[1]

\* C16: when merge_with_updated writes a backup (backup enabled, dry_run
\* disabled), the backup holds the master database as it was before the merge.
C16_BackupIsMasterBeforeMerge ==
    /\ (pc \in {"merge_save", "merged"} /\ mg.backup /\ ~mg.dry_run)
          => mg.backup_file = mg.before
    /\ (pc \in {"merge_save", "merged"} /\ ~(mg.backup /\ ~mg.dry_run))
          => mg.backup_file = NoFile


\* the providers of the chain
ChainProviders == {"aroundus", "illuminateartofficial"} \cup FallbackProviders

\* the provider a record's geo_source names
ProviderOfSource(source) == IF source = "exif_image_lieu" THEN "exif" ELSE source

\* the providers called so far
Invoked == {invoked[i] : i \in DOMAIN invoked}

C14_CancelAbandonsOnlyObject ==
    (~ENABLED NextBatch) => /\ pc = "written"
                            /\ todo = <<>>
                            /\ output_file = results


\* the record is marked geo_search_exhausted
MarkedExhausted(rec) ==
    "geo_search_exhausted" \in DOMAIN rec /\ rec.geo_search_exhausted = TRUE

\* C17: a record is marked geo_search_exhausted only if every provider of the
\* chain was actually invoked for the object and none yielded an accepted
\* candidate; an object for which some provider was skipped is never marked.
C17_ExhaustedOnlyIfAllInvoked ==
    \A i \in DOMAIN results :
        MarkedExhausted(results[i]) =>
            /\ ChainProviders \subseteq Invoked
            /\ stats.found = 0

\* a provider invoked later in the run has a higher rank, or both invocations
\* are of the interactive prompt
C18_Ordered(i, j, retry) ==
    \/ ProviderRank(invoked[i]) < ProviderRank(invoked[j])
    \/ retry /\ invoked[i] = "interactive" /\ invoked[j] = "interactive"

\* C18 as amended: the providers are invoked in the order of the chain, never
\* one after a later one, and none is invoked a second time, except the
\* interactive prompt, which is invoked again when the operator asks to retry
\* after an address that the geocoder does not find.
C18_OnceExceptInteractiveRetry ==
    \A i, j \in DOMAIN invoked : i < j => C18_Ordered(i, j, TRUE)

\* C18 reached: the interactive prompt was invoked, the operator asked to
\* retry, and it was invoked a second time
C18_InteractiveRetried ==
    /\ Len(invoked) >= 2
    /\ invoked[Len(invoked)] = "interactive"
    /\ invoked[Len(invoked) - 1] = "interactive"
    /\ loc.prompts = 2

\* C18 as stated: no provider, the interactive one included, is invoked a
\* second time.
C18_NoProviderInvokedTwice ==
    \A i, j \in DOMAIN invoked : i < j => C18_Ordered(i, j, FALSE)


\* the status of a reported distance_m (decimetres in the model)
StatusOfReported(dm) ==
    IF dm < 500 THEN "excellent"
    ELSE IF dm < 2000 THEN "good"
    ELSE IF dm < 5000 THEN "warning"
    ELSE "conflict"

\* C19: in check_coherence the status is always the bucket of the reported
\* distance_m, the distance being rounded to 0.1 m before it is compared: a
\* reported 50.0 is never excellent, 200.0 never good, 500.0 never warning.
C19_StatusOfReportedDistance ==
    (pc = "returned" /\ coh.out.distance_m # None) =>
        coh.out.status = StatusOfReported(coh.out.distance_m)


\* C20: for every region of CITY_CENTERS other than SPACE the radius used lies
\* between 10 000 m and 60 000 m and is 25 000 m when the region has no entry
\* in CITY_MAX_RADIUS, and every code of CITY_MAX_RADIUS is a region of
\* CITY_CENTERS.
C20_RadiusTable ==
    (pc = "returned" /\ call.fn = "max_radius") =>
        /\ KnownRegion(call.city_code) =>
              /\ call.out >= 10000 * 100
              /\ call.out <= 60000 * 100
              /\ call.city_code \notin DOMAIN CITY_MAX_RADIUS => call.out = 25000 * 100
        /\ call.city_code \in DOMAIN CITY_MAX_RADIUS =>
              call.city_code \in DOMAIN CITY_CENTERS


\* the address of a candidate, the region name taken off
BareAddress(a) == IF call.city_name = "" THEN a ELSE a[1]

\* the address is one of the recombined candidates
IsRecombined(a) ==
    \E k \in DOMAIN call.recombined : call.recombined[k] = BareAddress(a)

\* C21: in the OCR path the candidates go to the geocoder in list order, every
\* recombined candidate before every candidate that is only a direct line
\* match, each distinct candidate at most once; the first candidate that
\* geocodes ends the loop and no candidate is geocoded after it.
C21_RecombinedFirstStopAtFirst ==
    call.fn = "analyze" =>
        LET g == call.geocoded IN
        /\ \A i, j \in DOMAIN g : i < j =>
              /\ g[i].addr # g[j].addr
              /\ ~g[i].geo
              /\ IsRecombined(g[j].addr) => IsRecombined(g[i].addr)
        /\ \A i \in DOMAIN g : g[i].addr = call.addresses[i]
        /\ \A i \in DOMAIN g :
              \/ IsRecombined(g[i].addr)
              \/ \E k \in DOMAIN call.direct_addresses :
                    call.direct_addresses[k] = BareAddress(g[i].addr)
        /\ pc = "returned" =>
              \/ call.found /\ g[Len(g)].geo
              \/ ~call.found /\ Len(g) = Len(call.addresses)
                  /\ (\A k \in DOMAIN call.recombined : \E i \in DOMAIN g :
                        BareAddress(g[i].addr) = call.recombined[k])
                  /\ (\A m \in DOMAIN call.direct_addresses : \E i \in DOMAIN g :
                        BareAddress(g[i].addr) = call.direct_addresses[m])

\* C21 reached: two recombined candidates and a direct one that is also
\* recombined; the first did not geocode, the second did, the loop ended
C21_SecondCandidateGeocoded ==
    /\ pc = "returned"
    /\ call.fn = "analyze"
    /\ call.recombined = <<"RUE DE LA ROQUETTE", "12 RUE OBERKAMPF">>
    /\ call.direct_addresses = <<"Rue de la Roquette", "12 RUE OBERKAMPF">>
    /\ Len(call.addresses) = 3
    /\ Len(call.geocoded) = 2
    /\ call.found


\* the entries of unique that process p returned, each with its score
Returned(p) == FirstN(call.unique[p], TopCandidates)

\* the candidates of process p that pass the score test
Kept(p) ==
    {call.candidates[p][k] : k \in {i \in 1..Len(call.candidates[p]) :
                                       call.candidates[p][i][1] >= MinScore}}

FrenchStyle ==
    {_recombine_french(call.text)[k] : k \in 1..Len(_recombine_french(call.text))}

RecombineOf == call.fn = "_recombine_fragments"

\* C22: every returned candidate scores at least 40, and a returned candidate
\* that the French recombination produced scores at least 50: no French-style
\* candidate with a score from 40 to 49 is returned.
C22_FrenchKeptFromFifty ==
    RecombineOf =>
        \A p \in call.done : \A k \in 1..Len(Returned(p)) :
            /\ Returned(p)[k][1] >= 40
            /\ Returned(p)[k] \in FrenchStyle => Returned(p)[k][1] >= 50

\* C23: the returned list has at most 5 entries, in non-increasing score
\* order, no two of them equal up to letter case; a kept candidate equal up to
\* case to a returned one scores no more than it, and a kept candidate whose
\* address is not returned in any case scores no more than any returned one,
\* the list being full.
C23_TopFiveRanking ==
    RecombineOf =>
        \A p \in call.done :
            LET top == Returned(p)
            IN  /\ call.returned[p] = Addresses(top)
                /\ Len(top) <= 5
                /\ \A a, b \in 1..Len(top) : a < b => top[a][1] >= top[b][1]
                /\ \A a, b \in 1..Len(top) :
                       a # b => Upper(top[a][2]) # Upper(top[b][2])
                /\ \A c \in Kept(p) : \A a \in 1..Len(top) :
                       Upper(c[2]) = Upper(top[a][2]) => c[1] <= top[a][1]
                /\ \A c \in Kept(p) :
                       (\A a \in 1..Len(top) : Upper(c[2]) # Upper(top[a][2]))
                           => /\ Len(top) = 5
                              /\ \A a \in 1..Len(top) : c[1] <= top[a][1]

\* more than 5 distinct candidates are kept, two of them equal up to case
\* with different scores, and the list is returned
C23_CutAndCaseDuplicate ==
    /\ RecombineOf
    /\ 1 \in call.done
    /\ Len(call.unique[1]) > 5
    /\ Len(call.returned[1]) = 5
    /\ \E c, d \in Kept(1) :
           c[2] # d[2] /\ Upper(c[2]) = Upper(d[2]) /\ c[1] # d[1]

\* C24: the same text and region give the same list in the same order in
\* two processes, whatever the order in which each iterates over the sets.
C24_SameListInTwoProcesses ==
    (RecombineOf /\ call.done = Processes)
        => call.returned[1] = call.returned[2]


FromMasterOf == call.fn = "from_master"

\* C25: an object of the master that the unresolved fallback marked
\* geo_search_exhausted (centre of the region, SPACE included, or (0,0) of an
\* unknown region) is not selected by a --from-master run given neither
\* --retry-failed nor --id.
C25_ExhaustedSkipped ==
    (/\ FromMasterOf
     /\ pc \in {"selected", "geolocate", "returned"}
     /\ MarkedExhausted(call.master_db[1])
     /\ call.master_db[1] \in {FallbackMasterRecord(c) : c \in MasterRegions}
     /\ ~call.retry_failed)
        => call.poorly_located = <<>>


FetchOf == call.fn = "fetch_url"

FetchFailures == {i \in 1..Len(call.opened) : call.opened[i].raised # ""}

\* what is true of fetch_url at every moment: no more attempts than retries,
\* a wait of 2^attempt seconds after each failed attempt but the last one
\* allowed, nothing opened after a response, and at the return the decoded
\* first response, or None after retries failures
FetchSafe ==
    FetchOf =>
        /\ Len(call.opened) <= call.retries
        /\ \A i \in 1..Len(call.opened) :
               call.opened[i].raised = "" => i = Len(call.opened)
        /\ Len(call.slept) = Cardinality(FetchFailures \ {call.retries})
        /\ \A i \in 1..Len(call.slept) : call.slept[i] = 2 ^ (i - 1)
        /\ pc = "returned" =>
               IF Cardinality(FetchFailures) = Len(call.opened)
               THEN call.returned = FetchedNone /\ Len(call.opened) = call.retries
               ELSE call.returned = DecodeContent(call.opened[Len(call.opened)].content)

\* C26: fetch_url always returns; it makes at most retries attempts, waits
\* 2^attempt seconds after a failed attempt except after the last, returns
\* the decoded content of the first attempt that succeeds without a further
\* attempt, and returns None when every attempt failed.
C26_FetchTerminates == []FetchSafe /\ (FetchOf ~> pc = "returned")

\* two attempts fail, a wait follows each, and the third returns the content
C26_ThirdAttemptSucceeds ==
    /\ FetchOf
    /\ pc = "returned"
    /\ call.retries = 3
    /\ Len(call.opened) = 3
    /\ call.slept = <<1, 2>>
    /\ call.returned # FetchedNone


\* a stored record that holds a real observation
RealObservation(rec) ==
    rec.location_unknown # TRUE /\ rec.geo_source \notin {"city_center", "unknown"}

\* C27: a step of merge_with_updated that handles an incoming placeholder
\* (geo_search_exhausted true: centre of the region or (0,0)) leaves the
\* coordinates of every stored real observation as they were, whatever the
\* stored confidence, absent and low included.
C27_PlaceholderNeverReplacesObservation ==
    [][(/\ pc = "merge"
        /\ mg.i <= Len(mg.geolocated)
        /\ mg'.i = mg.i + 1
        /\ mg.geolocated[mg.i].geo_search_exhausted = TRUE)
          => \A idx \in DOMAIN mg.updated_db :
                RealObservation(mg.updated_db[idx])
                   => /\ mg'.updated_db[idx].lat = mg.updated_db[idx].lat
                      /\ mg'.updated_db[idx].lng = mg.updated_db[idx].lng]_vars

MergedIds == {NormalizeId(mg.updated_db[i].id) : i \in DOMAIN mg.updated_db}

\* C29: the master held one record per normalised id before the merge; it
\* does at every step of the merge and after it, and once the incoming file
\* is read through the number of records has grown by the number of distinct
\* incoming ids that the master did not hold.
C29_OneRecordPerId ==
    (pc \in {"merge", "merge_save", "merged"} /\ mg.before # <<>>) =>
        /\ Cardinality(MergedIds) = Len(mg.updated_db)
        /\ mg.i > Len(mg.geolocated) =>
              Len(mg.updated_db) - Len(mg.before) =
                  Cardinality({NormalizeId(mg.geolocated[j].id) : j \in DOMAIN mg.geolocated}
                              \ {NormalizeId(mg.before[j].id) : j \in DOMAIN mg.before})


CountConfidence(c) ==
    Cardinality({i \in DOMAIN results : results[i].geo_confidence = c})

\* C28: when process_missing_invaders has handled its objects, stats['high'],
\* stats['medium'] and stats['low'] are the numbers of emitted records of that
\* geo_confidence, their sum is stats['total'] and the number of records, and
\* stats['found'] is the number of records with location_unknown false.
C28_StatsMatchRecords ==
    Emitted =>
        /\ stats.high = CountConfidence("high")
        /\ stats.medium = CountConfidence("medium")
        /\ stats.low = CountConfidence("low")
        /\ stats.high + stats.medium + stats.low = stats.total
        /\ stats.total = Len(results)
        /\ stats.found =
               Cardinality({i \in DOMAIN results : results[i].location_unknown = FALSE})


\* the two shapes of an emitted record
ResolvedShape(rec) ==
    /\ rec.location_unknown = FALSE
    /\ "geo_search_exhausted" \in DOMAIN rec /\ rec.geo_search_exhausted = FALSE
    /\ rec.geo_source \notin {"city_center", "unknown", ""}
    /\ rec.lat # None /\ rec.lng # None

UnresolvedShape(rec) ==
    /\ rec.location_unknown = TRUE
    /\ MarkedExhausted(rec)
    /\ rec.geo_source \in {"city_center", "unknown"}
    /\ rec.geo_confidence = "low"

\* the objects of the input file handled so far
Handled == stats.total - Len(todo) - (IF pc \in {"done", "written"} THEN 0 ELSE 1)

\* what holds of the records while the run goes on: they are those of the
\* objects handled so far, the last one that of the object just handled, and
\* each has exactly one of the two shapes
RecordsInShape ==
    /\ Len(results) = Handled
    /\ pc = "done" => results[Len(results)].city = inv.city
    /\ \A i \in DOMAIN results :
           ResolvedShape(results[i]) # UnresolvedShape(results[i])

\* C30: process_missing_invaders emits one record per input object, in the
\* order of the input, each record in exactly one of the two shapes, resolved
\* or unresolved: the run ends only with the output file holding a record
\* for every object of the input.
C30_OneRecordPerObjectInOneShape ==
    /\ RecordsInShape
    /\ (~ENABLED NextBatch) => /\ output_file = results
                               /\ Len(output_file) = stats.total

=============================================================================
